---- MODULE Spec2Model ----
(***************************************************************************)
(* Webhook ingestion and link redirects of the affiliate tracking platform. *)
(*                                                                         *)
(*   - process_webhook_idempotently, the PL/pgSQL function that inserts a  *)
(*     webhook_events row or detects the duplicate (src/fix_function.py);  *)
(*   - handle_refersion_webhook, POST /webhooks/refersion                  *)
(*     (src/api/routes/webhooks.py);                                       *)
(*   - WebhookProcessor.process_shopify / process_attribution and the      *)
(*     POST /webhooks/shopify endpoint (src/core_api.py);                  *)
(*   - the redirect endpoints: redirect_slug, GET /r/{slug}                *)
(*     (src/api/routes/redirect.py), handle_redirect, GET /l/{slug}        *)
(*     (src/api/routes/redirects.py), and redirect_link with               *)
(*     ClickService.track_click (src/core_api.py), over the Redis cache    *)
(*     client (src/lib/redis_client.py).                                   *)
(*                                                                         *)
(* Every store round trip of a handler is one step, so that concurrent     *)
(* requests interleave between their statements.  Rows written inside the  *)
(* refersion handler's transaction become visible at its commit; a         *)
(* statement outside a transaction commits on its own.                     *)
(***************************************************************************)
EXTENDS Integers, FiniteSets, Sequences, TLC

\* Number of webhook deliveries (HTTP requests) in one behaviour.
MaxReq == 2
\* Number of direct invocations of process_webhook_idempotently.
MaxCalls == 3
\* Number of store or broadcast failures injected in one behaviour.
MaxFail == 1

Reqs == 1..MaxReq
Calls == 1..MaxCalls

\* NULL of a uuid column / an unset local.
Null == 0

\* The two applications, each with its own schema: the api package
\* (routes/webhooks.py) and core_api.py.
Api == "api"
CoreApi == "core_api"

Sources == {"refersion", "shopify"}
EventIds == {"e1", "e2"}
\* order_id values of a payload; NoOrder is a Shopify payload without "id".
NoOrder == "none"
Orders == {"O1", "O2"}
\* sale_amount of a payload, in cents.
Amounts == {7500, 2000}

\* The links of the tracking_links table: id, slug, influencer_id.
Links == {1, 2}
LinkSlug(l) == IF l = 1 THEN "s1" ELSE "s2"
LinkIdText(l) == IF l = 1 THEN "1" ELSE "2"
LinkInfluencer(l) == IF l = 1 THEN "inf1" ELSE "inf2"

\* (tracking_id, affiliate_id) of a Refersion payload: a slug of link 1, the
\* id of link 2, or neither.
RefersionSubs == { <<"s1", "aff">>, <<"zz", "2">>, <<"zz", "aff">> }
\* The subid of a Shopify payload's landing_site ("ref=<subid>"), split at
\* "_": well formed for link 1, well formed for an unknown slug, a single
\* part, or absent.
NoSubid == << >>
ShopifySubs == { <<"inf1", "s1", "1700">>, <<"inf1", "zz", "1700">>, <<"s1">>,
                 NoSubid }

\* Classes of the signature header of a request.
\*   valid     the header carries the HMAC-SHA256 the handler computes (hex,
\*             of the raw body, for refersion; base64, of
\*             json.dumps(payload), for Shopify)
\*   missing   no header
\*   badformat (refersion) not of the form sha256=<signature>
\*   wrong     a well formed ASCII value that is not the HMAC
\*   nonascii  a well formed value holding a non-ASCII character
Sigs == {"valid", "missing", "badformat", "wrong", "nonascii"}

\* What a request keeps of its header: the class when the handler examined
\* it, else only whether it was that HMAC.
SigSeen(examined, sig) ==
    IF examined \/ sig = "valid" THEN sig ELSE "invalid"

VARIABLES
    production,       \* ENVIRONMENT == "production" (api app)
    shopify_secret,   \* config.SHOPIFY_WEBHOOK_SECRET is set (core_api app)
    webhook_events,   \* table webhook_events
    conversions,      \* the conversions tables (field db: whose schema)
    commissions,      \* the commissions tables
    attributions,     \* table attributions (core_api schema)
    tracking_links,   \* table tracking_links: is_active and the counters
    req,              \* the HTTP requests: inputs, locals, position, answer
    calls,            \* direct invocations of process_webhook_idempotently
    fails,            \* failures injected so far
    core_links,       \* table tracking_links of core_api: the active column
    clicks,           \* the clicks tables (field db: whose schema)
    redis_connected,  \* redis_client.connected (api), db.redis set (core_api)
    cache,            \* the link descriptors held in Redis, by key
    ip_clicks,        \* Redis keys clicks:ip:<ip>: count, expiry (core_api)
    link_stats,       \* Redis hashes stats:link:<slug>, field clicks (core_api)
    rd,               \* the redirect requests: inputs, locals, position, answer
    cm,               \* a commission computation: inputs, locals, stored row
    new_links,        \* the tracking_links rows that link creation inserted
    link_cache,       \* the Redis keys link:<slug> that link creation wrote
    lk,               \* the link-creation requests: inputs, locals, answer
    pw,               \* prewarm_cache at startup: position, rows to cache
    rate_limiter,     \* the RateLimiter object: minute_buckets, hour_buckets
    clock,            \* time.time() in seconds, and how often it advanced
    answered,         \* the requests the middleware answered, in order
    counters,         \* Redis: the counters of RedisClient.check_rate_limit
    checks,           \* the calls of check_rate_limit answered, in order
    validation,       \* the last call of validate_signature and its result
    event_history,    \* ConnectionManager.event_history
    broadcasts        \* every event broadcast so far, in order

vars == << production, shopify_secret, webhook_events, conversions, commissions,
           attributions, tracking_links, req, calls, fails, core_links, clicks,
           redis_connected, cache, ip_clicks, link_stats, rd, cm, new_links,
           link_cache, lk, pw, rate_limiter, clock, answered, counters,
           checks, validation, event_history, broadcasts >>

\* The state of the rate-limiting middleware.
limiter_vars == << rate_limiter, clock, answered >>

\* The state of the rate limit kept in Redis.
counter_vars == << counters, checks >>

\* The history of the WebSocket manager.
history_vars == << event_history, broadcasts >>

\* The state of the components of lib/ that are modelled on their own.
library_vars == << limiter_vars, counter_vars, validation, history_vars >>

\* The state of link creation.
creation_vars == << new_links, link_cache, lk >>

\* The state of the webhook endpoints that the redirect endpoints leave alone.
webhook_vars == << production, shopify_secret, webhook_events, conversions,
                  commissions, attributions, req, calls, cm, creation_vars,
                  pw, library_vars >>

\* The state of the redirect endpoints.
redirect_vars == << core_links, clicks, redis_connected, cache, ip_clicks,
                   link_stats, rd >>

\* What no step of a webhook changes: the configuration, the state of the
\* redirect endpoints and the commission computation taken alone.
untouched == << redirect_vars, production, shopify_secret, cm,
               creation_vars, pw, library_vars >>

store == << webhook_events, conversions, commissions, attributions,
            tracking_links >>

NoResult == [is_duplicate |-> FALSE, webhook_event_id |-> Null,
             conversion_id |-> Null]

IdleReq == [kind |-> "none", pc |-> "idle", eid |-> "", order |-> "",
            sub |-> << >>, sig |-> "", sale |-> 0, result |-> NoResult,
            link |-> Null, status |-> 0, reply |-> "", err |-> "none",
            after |-> {}]

IdleCall == [pc |-> "idle", source |-> "", eid |-> "", result |-> NoResult]

----------------------------------------------------------------------------
(* Signature validation *)

\* WebhookValidator.validate_signature without a timestamp: compare_digest
\* of the given signature with the computed HMAC; compare_digest raises
\* TypeError on a str holding non-ASCII characters.
validate_signature(sig) ==
    CASE sig = "valid" -> "true"
      [] sig = "nonascii" -> "raise"
      [] OTHER -> "false"

\* A check that validates only a header that is present.
SignatureCheckedWhenPresent(prod, sig) ==
    IF prod /\ sig # "missing"
    THEN CASE sig = "badformat" -> 401
           [] validate_signature(sig) = "false" -> 401
           [] validate_signature(sig) = "raise" -> 500
           [] OTHER -> 0
    ELSE 0

\* handle_refersion_webhook, lines 45-77: 0 when the request goes on, else
\* the status it is answered with.  The validation runs outside the try
\* block, so an exception of it is answered 500 by the framework.
RefersionSignatureCheck(prod, sig) ==
    IF prod
    THEN CASE sig = "missing" -> 401
           [] sig = "badformat" -> 401
           [] validate_signature(sig) = "false" -> 401
           [] validate_signature(sig) = "raise" -> 500
           [] OTHER -> 0
    ELSE 0

\* process_shopify, lines 686-698, under shopify_webhook's handlers: a
\* missing header is compared as ''; HTTPException(401) is re-raised, any
\* other exception becomes 500.
ShopifySignatureCheck(secret, sig) ==
    IF secret
    THEN CASE validate_signature(sig) = "true" -> 0
           [] validate_signature(sig) = "raise" -> 500
           [] OTHER -> 401
    ELSE 0

----------------------------------------------------------------------------
(* The store *)

\* A unique index on external_event_id alone.
SameExternalEventId(row, source, eid) == row.external_event_id = eid

\* The unique index on webhook_events (source, external_event_id).
SameEventKey(row, source, eid) ==
    row.source = source /\ row.external_event_id = eid

\* A webhook_events table without the unique index.
NoUniqueIndex(source, eid) == FALSE

\* The INSERT of process_webhook_idempotently raises unique_violation.
EventUniqueViolation(source, eid) ==
    \E row \in webhook_events : SameEventKey(row, source, eid)

NewEventRow(id, source, eid) ==
    [id |-> id, source |-> source, external_event_id |-> eid,
     conversion_id |-> Null, status_code |-> Null, error_message |-> ""]

\* SELECT we.id, we.conversion_id ... WHERE source = p_source AND
\* external_event_id = p_external_event_id
ExistingEvent(source, eid) ==
    CHOOSE row \in webhook_events : SameEventKey(row, source, eid)

\* A conversions table whose order_id is not UNIQUE.
NoOrderUniqueness(db, order) == FALSE

\* conversions.order_id is UNIQUE, in the schema of either application.
OrderUniqueViolation(db, order) ==
    \E c \in conversions : c.db = db /\ c.order_id = order

\* Requests whose open transaction holds an uncommitted conversions row.
InTransaction(r) == req[r].pc = "tx_write"

\* An INSERT of the same order_id waits for the open transaction to end.
OrderInsertBlocked(r, order) ==
    \E q \in Reqs \ {r} : InTransaction(q) /\ req[q].order = order

NewConversion(db, id, order, link, amount) ==
    [db |-> db, id |-> id, order_id |-> order, tracking_link_id |-> link,
     order_amount |-> amount]

NewCommission(id, conversion, influencer) ==
    [id |-> id, conversion_id |-> conversion, influencer_id |-> influencer]

NewAttribution(id, conversion, link) ==
    [id |-> id, conversion_id |-> conversion, tracking_link_id |-> link]

\* SELECT ... FROM tracking_links tl JOIN programs p ...
\* WHERE tl.slug = $1 OR tl.id::text = $2 LIMIT 1
FindTrackingLinks(tracking_id, affiliate_id) ==
    { l \in Links : LinkSlug(l) = tracking_id \/ LinkIdText(l) = affiliate_id }

\* A lookup that does not filter by slug.
AnyLinkBySlug(slug) == Links

\* SELECT ... FROM tracking_links tl JOIN programs p ... WHERE tl.slug = $1
FindLinkBySlug(slug) == { l \in Links : LinkSlug(l) = slug }

----------------------------------------------------------------------------
(* Requests *)

Done(r) == req[r].pc = "done"

\* The answer of a request: the HTTP status, the "status" of the body (""
\* for an error body) and what raised, if anything did.
Answer(r, code, reply, err) ==
    req' = [req EXCEPT ![r].pc = "done", ![r].status = code,
                       ![r].reply = reply, ![r].err = err]

\* Slots are taken in order; a request records which requests were already
\* answered when it arrived.
CanArrive(r) ==
    /\ req[r].pc = "idle"
    /\ \A q \in Reqs : q < r => req[q].pc # "idle"

Arrived(r, kind, eid, order, sub, sig, sale) ==
    [IdleReq EXCEPT !.kind = kind, !.eid = eid, !.order = order, !.sub = sub,
                    !.sig = sig, !.sale = sale,
                    !.after = { q \in Reqs : Done(q) }]

\* POST /webhooks/refersion up to the acquisition of the connection.
ReceiveRefersion(r) ==
    /\ CanArrive(r)
    /\ \E eid \in EventIds, order \in Orders, sub \in RefersionSubs,
          sig \in Sigs, sale \in Amounts :
          LET a == Arrived(r, "refersion", eid, order, sub,
                           SigSeen(production, sig), sale)
              code == RefersionSignatureCheck(production, sig)
          IN req' = [req EXCEPT ![r] =
                        IF code = 0
                        THEN [a EXCEPT !.pc = "idem"]
                        ELSE [a EXCEPT !.pc = "done", !.status = code]]
    /\ UNCHANGED << untouched, store, calls, fails >>

\* The idempotency check of handle_refersion_webhook (lines 89-93) is one
\* call of process_webhook_idempotently with source "refersion".
RefersionSource == "refersion"

\* gen_random_uuid() of webhook_events.id: a value no row holds yet.
FreshEventId == Cardinality(webhook_events) + 1

\* A handler that does not branch on the duplicate.
NeverDuplicate(result) == FALSE

\* `if result['is_duplicate']:` (line 95)
DuplicateBranch(result) == result.is_duplicate

AfterIdempotencyCheck(r, result) ==
    [req EXCEPT ![r].result = result,
                ![r].pc = IF DuplicateBranch(result) THEN "dup_respond"
                          ELSE "tx_find"]

\* `if 'webhook_event_id' in locals():` (line 215): the handler binds no
\* local of that name, the id lives in result['webhook_event_id'].
LocalsHasWebhookEventId == FALSE

\* raise HTTPException(status_code=500, ...) (line 222)
ExceptStatus == 500

\* An except clause that swallows the error and acknowledges the event.
ExceptSwallows(r, err) ==
    /\ UNCHANGED webhook_events
    /\ Answer(r, 202, "accepted", err)

\* The except clause of handle_refersion_webhook (lines 212-222); the open
\* transaction, if any, has been rolled back by its context manager.
RefersionExcept(r, err) ==
    /\ webhook_events' =
          IF LocalsHasWebhookEventId
          THEN { IF row.id = req[r].result.webhook_event_id
                 THEN [row EXCEPT !.status_code = 500,
                                  !.error_message = err]
                 ELSE row :
                 row \in webhook_events }
          ELSE webhook_events
    /\ Answer(r, ExceptStatus, "", err)

\* process_webhook_idempotently, the INSERT and, without a violation, the
\* RETURN QUERY (lines 33-39, 51).
IdemInsert(r) ==
    /\ req[r].pc = "idem"
    /\ IF EventUniqueViolation(RefersionSource, req[r].eid)
       THEN /\ req' = [req EXCEPT ![r].pc = "idem_select"]
            /\ UNCHANGED webhook_events
       ELSE /\ webhook_events' = webhook_events \cup
                   { NewEventRow(FreshEventId, RefersionSource, req[r].eid) }
            /\ req' = AfterIdempotencyCheck(r,
                         [is_duplicate |-> FALSE,
                          webhook_event_id |-> FreshEventId,
                          conversion_id |-> Null])
    /\ UNCHANGED << untouched, conversions, commissions,
                    attributions, tracking_links, calls, fails >>

\* process_webhook_idempotently, EXCEPTION WHEN unique_violation: the SELECT
\* of the existing row (lines 41-51).
IdemSelect(r) ==
    /\ req[r].pc = "idem_select"
    /\ LET row == ExistingEvent(RefersionSource, req[r].eid)
       IN req' = AfterIdempotencyCheck(r,
                    [is_duplicate |-> TRUE, webhook_event_id |-> row.id,
                     conversion_id |-> row.conversion_id])
    /\ UNCHANGED << untouched, store, calls, fails >>

\* A duplicate branch that keeps the default status code.
RespondDuplicateDefaultStatus(r) ==
    /\ req[r].pc = "dup_respond"
    /\ Answer(r, 200, "accepted", "none")
    /\ UNCHANGED << untouched, store, calls, fails >>

\* The duplicate branch (lines 95-112): 202 Accepted.
RespondDuplicate(r) ==
    /\ req[r].pc = "dup_respond"
    /\ Answer(r, 202, "accepted", "none")
    /\ UNCHANGED << untouched, store, calls, fails >>

\* async with conn.transaction(): the lookup of the tracking link (lines
\* 115-132).  Without a link the handler returns inside the block, which
\* commits the empty transaction; the status code stays the default 200.
TxFindLink(r) ==
    /\ req[r].pc = "tx_find"
    /\ LET found == FindTrackingLinks(req[r].sub[1], req[r].sub[2])
       IN IF found = {}
          THEN Answer(r, 200, "accepted", "none")
          ELSE \E l \in found :
                  req' = [req EXCEPT ![r].link = l, ![r].pc = "tx_insert"]
    /\ UNCHANGED << untouched, store, calls, fails >>

\* INSERT INTO conversions ... RETURNING id (lines 134-150).
TxInsertConversion(r) ==
    /\ req[r].pc = "tx_insert"
    /\ ~OrderInsertBlocked(r, req[r].order)
    /\ IF OrderUniqueViolation(Api, req[r].order)
       THEN RefersionExcept(r, "unique")
       ELSE /\ req' = [req EXCEPT ![r].pc = "tx_write"]
            /\ UNCHANGED webhook_events
    /\ UNCHANGED << untouched, conversions, commissions,
                    attributions, tracking_links, calls, fails >>

\* A transaction that leaves the webhook event without its conversion.
KeepConversionIdNull(webhook_event_id, conversion_id) == webhook_events

\* UPDATE webhook_events SET conversion_id = $1 WHERE id = $2
\* (lines 173-178).
SetConversionId(webhook_event_id, conversion_id) ==
    { IF row.id = webhook_event_id
      THEN [row EXCEPT !.conversion_id = conversion_id] ELSE row :
      row \in webhook_events }

\* A link counts the conversion and nothing of its revenue.
UpdateLinkStatsCountOnly(l, sale_amount) ==
    [tracking_links EXCEPT ![l].total_conversions = @ + 1]

\* UPDATE tracking_links SET total_conversions = total_conversions + 1,
\* total_revenue = total_revenue + $2 WHERE id = $1 (lines 180-186).
UpdateLinkStats(l, sale_amount) ==
    [tracking_links EXCEPT ![l].total_conversions = @ + 1,
                           ![l].total_revenue = @ + sale_amount]

\* The rest of the transaction and its commit (lines 152-210): the
\* commission, the conversion_id of the webhook event, the counters of the
\* link, the two broadcasts, the return.
TxCommit(r) ==
    /\ req[r].pc = "tx_write"
    /\ conversions' = conversions \cup
          { NewConversion(Api, r, req[r].order, req[r].link, req[r].sale) }
    /\ commissions' = commissions \cup
          { NewCommission(r, r, LinkInfluencer(req[r].link)) }
    /\ webhook_events' =
          SetConversionId(req[r].result.webhook_event_id, r)
    /\ tracking_links' = UpdateLinkStats(req[r].link, req[r].sale)
    /\ Answer(r, 200, "success", "none")
    /\ UNCHANGED << untouched, attributions, calls, fails >>

\* manager.broadcast_webhook / broadcast_conversion raise (the dictionary of
\* connections changes while broadcast iterates over it): inside the
\* transaction this rolls it back.
BroadcastRaises(r) ==
    /\ req[r].pc \in {"dup_respond", "tx_write"}
    /\ fails < MaxFail
    /\ fails' = fails + 1
    /\ RefersionExcept(r, "broadcast")
    /\ UNCHANGED << untouched, conversions, commissions,
                    attributions, tracking_links, calls >>

\* A statement of the handler fails in the store (connection lost, timeout).
RefersionStoreFails(r) ==
    /\ req[r].pc \in {"idem", "idem_select", "tx_find", "tx_insert", "tx_write"}
    /\ fails < MaxFail
    /\ fails' = fails + 1
    /\ RefersionExcept(r, "store")
    /\ UNCHANGED << untouched, conversions, commissions,
                    attributions, tracking_links, calls >>

handle_refersion_webhook(r) ==
    \/ ReceiveRefersion(r)
    \/ IdemInsert(r)
    \/ IdemSelect(r)
    \/ RespondDuplicate(r)
    \/ TxFindLink(r)
    \/ TxInsertConversion(r)
    \/ TxCommit(r)
    \/ BroadcastRaises(r)
    \/ RefersionStoreFails(r)

----------------------------------------------------------------------------
(* POST /webhooks/shopify *)

ShopifySigs == Sigs \ {"badformat"}

\* raise HTTPException(500, "Webhook processing failed") (line 1043)
ShopifyExceptStatus == 500

\* shopify_webhook and process_shopify up to the first query (lines
\* 1029-1036, 686-703).
ReceiveShopify(r) ==
    /\ CanArrive(r)
    /\ \E order \in Orders \cup {NoOrder}, sub \in ShopifySubs,
          sig \in ShopifySigs, sale \in Amounts :
          LET a == Arrived(r, "shopify", "", order, sub,
                           SigSeen(shopify_secret, sig), sale)
              code == ShopifySignatureCheck(shopify_secret, sig)
          IN req' = [req EXCEPT ![r] =
                        IF code # 0
                        THEN [a EXCEPT !.pc = "done", !.status = code]
                        ELSE IF order = NoOrder
                        THEN [a EXCEPT !.pc = "done", !.status = 400]
                        ELSE [a EXCEPT !.pc = "sh_check"]]
    /\ UNCHANGED << untouched, store, calls, fails >>

\* SELECT id FROM conversions WHERE order_id = $1 (lines 705-711).
ShCheckDuplicate(r) ==
    /\ req[r].pc = "sh_check"
    /\ IF OrderUniqueViolation(CoreApi, req[r].order)
       THEN Answer(r, 200, "duplicate", "none")
       ELSE req' = [req EXCEPT ![r].pc = "sh_insert"]
    /\ UNCHANGED << untouched, store, calls, fails >>

\* `if subid:` (line 739) and `if len(parts) < 2: return` (lines 752-755).
AttributionAttempted(sub) == sub # NoSubid /\ Len(sub) >= 2

\* INSERT INTO conversions (lines 719-736), committed on its own.
ShInsertConversion(r) ==
    /\ req[r].pc = "sh_insert"
    /\ IF OrderUniqueViolation(CoreApi, req[r].order)
       THEN /\ Answer(r, ShopifyExceptStatus, "", "unique")
            /\ UNCHANGED conversions
       ELSE /\ conversions' = conversions \cup
                   { NewConversion(CoreApi, r, req[r].order, Null,
                                   req[r].sale) }
            /\ IF AttributionAttempted(req[r].sub)
               THEN req' = [req EXCEPT ![r].pc = "sh_link"]
               ELSE Answer(r, 200, "success", "none")
    /\ UNCHANGED << untouched, webhook_events, commissions,
                    attributions, tracking_links, calls, fails >>

\* process_attribution: the link of slug parts[1] (lines 757-773).
ShFindLink(r) ==
    /\ req[r].pc = "sh_link"
    /\ LET found == FindLinkBySlug(req[r].sub[2])
       IN IF found = {}
          THEN Answer(r, 200, "success", "none")
          ELSE \E l \in found :
                  req' = [req EXCEPT ![r].link = l, ![r].pc = "sh_attribution"]
    /\ UNCHANGED << untouched, store, calls, fails >>

\* INSERT INTO attributions (lines 775-785), committed on its own.
ShInsertAttribution(r) ==
    /\ req[r].pc = "sh_attribution"
    /\ attributions' = attributions \cup { NewAttribution(r, r, req[r].link) }
    /\ req' = [req EXCEPT ![r].pc = "sh_commission"]
    /\ UNCHANGED << untouched, webhook_events, conversions,
                    commissions, tracking_links, calls, fails >>

\* The conversion is read back and the commission inserted (lines 787-814);
\* the Redis counters follow (lines 816-822).
ShInsertCommission(r) ==
    /\ req[r].pc = "sh_commission"
    /\ commissions' = commissions \cup
          { NewCommission(r, r, LinkInfluencer(req[r].link)) }
    /\ \/ /\ Answer(r, 200, "success", "none")
          /\ UNCHANGED fails
       \/ /\ fails < MaxFail
          /\ fails' = fails + 1
          /\ Answer(r, ShopifyExceptStatus, "", "cache")
    /\ UNCHANGED << untouched, webhook_events, conversions,
                    attributions, tracking_links, calls >>

\* A statement of process_shopify / process_attribution fails in the store.
ShopifyStoreFails(r) ==
    /\ req[r].pc \in {"sh_check", "sh_insert", "sh_link", "sh_attribution",
                      "sh_commission"}
    /\ fails < MaxFail
    /\ fails' = fails + 1
    /\ Answer(r, ShopifyExceptStatus, "", "store")
    /\ UNCHANGED << untouched, store, calls >>

shopify_webhook(r) ==
    \/ ReceiveShopify(r)
    \/ ShCheckDuplicate(r)
    \/ ShInsertConversion(r)
    \/ ShFindLink(r)
    \/ ShInsertAttribution(r)
    \/ ShInsertCommission(r)
    \/ ShopifyStoreFails(r)

----------------------------------------------------------------------------
(* Direct invocations of process_webhook_idempotently *)

CallStart(c) ==
    /\ calls[c].pc = "idle"
    /\ \A d \in Calls : d < c => calls[d].pc # "idle"
    /\ \E source \in Sources, eid \in EventIds :
          calls' = [calls EXCEPT ![c] = [IdleCall EXCEPT !.pc = "insert",
                                            !.source = source, !.eid = eid]]
    /\ UNCHANGED << untouched, store, req, fails >>

\* The INSERT and, without a violation, the RETURN QUERY (lines 33-39, 51).
CallInsert(c) ==
    /\ calls[c].pc = "insert"
    /\ IF EventUniqueViolation(calls[c].source, calls[c].eid)
       THEN /\ calls' = [calls EXCEPT ![c].pc = "select"]
            /\ UNCHANGED webhook_events
       ELSE /\ webhook_events' = webhook_events \cup
                   { NewEventRow(FreshEventId, calls[c].source, calls[c].eid) }
            /\ calls' = [calls EXCEPT ![c].pc = "returned",
                            ![c].result = [is_duplicate |-> FALSE,
                                           webhook_event_id |-> FreshEventId,
                                           conversion_id |-> Null]]
    /\ UNCHANGED << untouched, conversions, commissions,
                    attributions, tracking_links, req, fails >>

\* EXCEPTION WHEN unique_violation: the SELECT of the existing row and the
\* RETURN QUERY (lines 41-51).
CallSelect(c) ==
    /\ calls[c].pc = "select"
    /\ LET row == ExistingEvent(calls[c].source, calls[c].eid)
       IN calls' = [calls EXCEPT ![c].pc = "returned",
                       ![c].result = [is_duplicate |-> TRUE,
                                      webhook_event_id |-> row.id,
                                      conversion_id |-> row.conversion_id]]
    /\ UNCHANGED << untouched, store, req, fails >>

\* The call fails in the store: it returns no row and leaves none.
CallFails(c) ==
    /\ calls[c].pc \in {"insert", "select"}
    /\ fails < MaxFail
    /\ fails' = fails + 1
    /\ calls' = [calls EXCEPT ![c].pc = "failed"]
    /\ UNCHANGED << untouched, store, req >>

process_webhook_idempotently(c) ==
    \/ CallStart(c)
    \/ CallInsert(c)
    \/ CallSelect(c)
    \/ CallFails(c)

----------------------------------------------------------------------------
(* Redirects: values, the cache client *)

\* Slugs of the redirect requests: the slugs of the links and an unknown one.
Slugs == {"s1", "s2", "zz"}

\* destination_url of the links: one of URL-safe characters only, as
\* create_link builds it with urlencode, and one holding a space in its path.
LinkDest(l) ==
    IF l = 1 THEN "https://m1.example/p?utm_source=ig&ref=s1"
    ELSE "https://m2.example/new in?ref=s2"

\* The URL handle_redirect sends an unknown slug to (line 84).
DefaultUrl == "/"

\* RedirectResponse sets Location to
\* urllib.parse.quote(url, safe=":/%#?=@[]!$&'()*+,;"): every other character
\* that is not a letter, a digit or one of "_.-~" is percent-encoded.
Quote(url) ==
    IF url = "https://m2.example/new in?ref=s2"
    THEN "https://m2.example/new%20in?ref=s2"
    ELSE url

\* A RedirectResponse that would send the URL as it is.
LocationVerbatim(url) == url

\* RedirectResponse(url=..., status_code=302): the Location header.
Location(url) == Quote(url)

\* Python values: None, a str holding the JSON text of an object, a dict,
\* and the outcome "an exception was raised".
NoneValue == [type |-> "none"]
Raise == [type |-> "raise"]
Str(obj) == [type |-> "str", obj |-> obj]
Dict(obj) == [type |-> "dict", obj |-> obj]

\* An id as the store returns it (asyncpg: a UUID object) and as str(id).
Uuid(l) == [t |-> "uuid", v |-> l]
IdStr(l) == [t |-> "str", v |-> l]

\* json.loads: a TypeError unless the argument is a str.
JsonLoads(value) ==
    IF value.type = "str" THEN Dict(value.obj) ELSE Raise

\* json.dumps of a dict: a TypeError when it holds a UUID object.
JsonDumps(obj) ==
    IF "id" \in DOMAIN obj /\ obj.id.t = "uuid" THEN Raise ELSE Str(obj)

\* The keys of the link descriptors: "redirect:<slug>" and "link:<slug>" in
\* the Redis of the api package, "link:<slug>" in the Redis of core_api.
Key(app, prefix, slug) == << app, prefix, slug >>
CacheKeys ==
    { Key(Api, "redirect:", s) : s \in Slugs } \cup
    { Key(Api, "link:", s) : s \in Slugs } \cup
    { Key(CoreApi, "link:", s) : s \in Slugs }

\* RedisClient.get (lines 48-59): None without a connection or a value; a
\* value that starts with "{", as every cached descriptor does, is returned
\* parsed.
RedisClientGet(key) ==
    IF ~redis_connected[Api] THEN NoneValue
    ELSE IF cache[key].type = "str" THEN JsonLoads(cache[key])
    ELSE NoneValue

\* RedisClient.set (lines 61-72), the contents of the cache after the call:
\* a dict is serialized first, and an exception of json.dumps or of setex is
\* logged and answered False.
RedisClientSet(key, value) ==
    IF ~redis_connected[Api] THEN cache
    ELSE LET text == IF value.type = "dict" THEN JsonDumps(value.obj)
                     ELSE value
         IN IF text.type = "raise" THEN cache
            ELSE [cache EXCEPT ![key] = text]

\* The descriptors that are cached when a link is created or at startup:
\* prewarm_cache (redirect.py), create_link (links.py), create_link
\* (core_api.py).
PrewarmData(l) ==
    [tracking_link_id |-> IdStr(l), destination_url |-> LinkDest(l)]
CreatedLinkData(l) ==
    [id |-> IdStr(l), destination_url |-> LinkDest(l),
     influencer_id |-> LinkInfluencer(l)]
CoreLinkData(l) ==
    [id |-> IdStr(l), destination |-> LinkDest(l),
     influencer_id |-> LinkInfluencer(l)]

\* The cache when the links of `cached` were cached less than a TTL ago.
CacheHolding(cached) ==
    [k \in CacheKeys |->
        LET ls == { l \in cached : LinkSlug(l) = k[3] }
        IN IF ls = {} THEN NoneValue
           ELSE LET l == CHOOSE x \in ls : TRUE
                IN CASE k[2] = "redirect:" -> Str(PrewarmData(l))
                     [] k[1] = Api -> Str(CreatedLinkData(l))
                     [] OTHER -> Str(CoreLinkData(l))]

----------------------------------------------------------------------------
(* Redirect requests *)

IdleRd == [kind |-> "none", pc |-> "idle", slug |-> "", bot |-> FALSE,
           link |-> NoneValue, lid |-> Null, hit |-> FALSE,
           queried |-> FALSE, velocity |-> FALSE, score |-> 0,
           status |-> 0, location |-> "", err |-> "none", after |-> {},
           conn |-> "none"]

RdDone(r) == rd[r].pc = "done"

\* The answer of a redirect request: the status, the Location header ("" when
\* there is none) and the first failure the request met, if any.
AnswerRd(r, code, location, err) ==
    rd' = [rd EXCEPT ![r].pc = "done", ![r].status = code,
                     ![r].location = location,
                     ![r].err = IF rd[r].err = "none" THEN err ELSE rd[r].err]

\* p.cookie_window_days of the link's program (redirects.py line 68), the
\* default of the column.
CookieWindowDays == 30

\* response.set_cookie(key=f"skin_ref_{link['influencer_id']}", value=slug,
\* max_age=link['cookie_duration_days'] * 24 * 60 * 60, httponly=True,
\* samesite="lax") of handle_redirect.
AttributionCookie(l, slug) ==
    [key |-> << "skin_ref_", LinkInfluencer(l) >>, value |-> slug,
     max_age |-> CookieWindowDays * 24 * 60 * 60, httponly |-> TRUE,
     secure |-> FALSE, samesite |-> "lax"]

\* The device_id and session_id cookies of redirect_link; their values are
\* the identifiers of the click.
TrackingCookies(r) ==
    { [key |-> << "device_id" >>, value |-> << "device", r >>,
       max_age |-> 365 * 24 * 60 * 60, httponly |-> TRUE, secure |-> TRUE,
       samesite |-> "lax"],
      [key |-> << "session_id" >>, value |-> << "session", r >>,
       max_age |-> 24 * 60 * 60, httponly |-> TRUE, secure |-> TRUE,
       samesite |-> "lax"] }

\* The cookies of the response a 302 answer returns. redirect_slug returns
\* RedirectResponse(url=destination_url, status_code=302) with no cookie.
\* handle_redirect sets the attribution cookie on the injected `response`
\* and returns a new RedirectResponse, which has the two headers of its
\* constructor and no cookie. redirect_link sets its two cookies on the
\* response it returns.
ResponseCookies(r) ==
    IF rd[r].status # 302 THEN {}
    ELSE IF rd[r].kind = "redirect_link" THEN TrackingCookies(r)
    ELSE {}

RdCanArrive(r) ==
    /\ rd[r].pc = "idle"
    /\ \A q \in Reqs : q < r => rd[q].pc # "idle"

RdArrived(r, kind, pc, slug, bot) ==
    [rd EXCEPT ![r] = [IdleRd EXCEPT !.kind = kind, !.pc = pc, !.slug = slug,
                                     !.bot = bot,
                                     !.after = { q \in Reqs : RdDone(q) }]]

\* A call of the request fails: the cache, the store or the broadcast raises.
InjectFailure ==
    /\ fails < MaxFail
    /\ fails' = fails + 1

\* The client IP of the requests (request.client.host).
ClientIp == "ip1"

\* hashlib.sha256(text.encode()).hexdigest(): the digest of a text, the
\* text given as the sequence of its parts.
Sha256(text) == [alg |-> "sha256", input |-> text]
\* No ip_hash is written (redirect_slug inserts tracking_link_id and slug).
NoHash == [alg |-> "none", input |-> << >>]

\* hash_ip of api/routes/redirects.py: sha256 of f"{ip}:skinstack".
hash_ip(ip) == Sha256(<< ip, ":skinstack" >>)
\* ip_hash of track_click: hashlib.sha256(ip.encode()).hexdigest().
CoreIpHash(ip) == Sha256(<< ip >>)

\* key = f"clicks:ip:{ip}" of check_fraud_signals.
VelocityKey(ip) == << "clicks:ip:", ip >>

\* A click row; fraud_score (hundredths) and the flags are columns of the
\* core_api schema only.
NewClick(db, id, link, ip_hash, score, is_bot, velocity_exceeded) ==
    [db |-> db, id |-> id, tracking_link_id |-> link, ip_hash |-> ip_hash,
     fraud_score |-> score, is_bot |-> is_bot,
     velocity_exceeded |-> velocity_exceeded]

----------------------------------------------------------------------------
(* GET /r/{slug}: redirect_slug (api/routes/redirect.py) *)

\* max_size of the pool of asyncpg.create_pool (lib/db.py).
max_size == 20

\* The connections of the pool that no redirect_slug request holds: a
\* connection that db.get_connection handed out is back in the pool only
\* after db.release_connection.
PoolFree ==
    max_size - Cardinality({ r \in Reqs : rd[r].conn = "acquired" })

\* `conn` after a `try: ... finally: await db.release_connection(conn)`.
Released == "released"
\* `conn` after an exception between get_connection and release_connection
\* where no finally releases it.
NotReleased == "acquired"

RsReceive(r) ==
    /\ RdCanArrive(r)
    /\ \E slug \in Slugs :
          rd' = RdArrived(r, "redirect_slug", "rs_cache", slug, FALSE)
    /\ UNCHANGED << webhook_vars, tracking_links, fails, core_links, clicks,
                    redis_connected, cache, ip_clicks, link_stats >>

\* cached_url after lines 30-43: json.loads of what redis_client.get
\* returned; an exception leaves it None.
RsCachedUrl(cached_data) ==
    IF cached_data.type = "none" THEN NoneValue
    ELSE IF JsonLoads(cached_data).type = "raise" THEN NoneValue
    ELSE JsonLoads(cached_data)

\* The cache lookup (lines 28-48).
RsCacheGet(r) ==
    /\ rd[r].pc = "rs_cache"
    /\ \/ /\ LET cached_url ==
                    RsCachedUrl(RedisClientGet(Key(Api, "redirect:",
                                                   rd[r].slug)))
             IN IF cached_url.type = "dict"
                THEN rd' = [rd EXCEPT ![r].link = cached_url, ![r].hit = TRUE,
                                      ![r].lid =
                                         cached_url.obj.tracking_link_id.v,
                                      ![r].pc = "rs_click"]
                ELSE rd' = [rd EXCEPT ![r].pc = "rs_query"]
          /\ UNCHANGED fails
       \/ /\ redis_connected[Api]
          /\ InjectFailure
          /\ rd' = [rd EXCEPT ![r].pc = "rs_query", ![r].err = "cache"]
    /\ UNCHANGED << webhook_vars, tracking_links, core_links, clicks,
                    redis_connected, cache, ip_clicks, link_stats >>

\* SELECT id, destination_url FROM tracking_links
\* WHERE slug = $1 AND is_active = true
ActiveLinks(slug) ==
    { l \in Links : LinkSlug(l) = slug /\ tracking_links[l].is_active }

\* The store lookup (lines 50-64): no row is answered 404; an exception of
\* get_connection or fetchrow is not caught, the framework answers 500. The
\* finally clause releases the connection that was acquired.
RsQuery(r) ==
    /\ rd[r].pc = "rs_query"
    /\ \/ /\ IF ActiveLinks(rd[r].slug) = {}
             THEN rd' = [rd EXCEPT ![r].pc = "done", ![r].status = 404,
                                   ![r].conn = Released]
             ELSE \E l \in ActiveLinks(rd[r].slug) :
                     rd' = [rd EXCEPT
                              ![r].link = Dict([tracking_link_id |-> Uuid(l),
                                                destination_url |->
                                                   LinkDest(l)]),
                              ![r].lid = l, ![r].queried = TRUE,
                              ![r].conn = "acquired",
                              ![r].pc = "rs_set"]
          /\ UNCHANGED fails
       \/ /\ InjectFailure
          /\ AnswerRd(r, 500, "", "store")
    /\ UNCHANGED << webhook_vars, tracking_links, core_links, clicks,
                    redis_connected, cache, ip_clicks, link_stats >>

\* The result is cached (lines 66-79): json.dumps of cache_data, whose
\* tracking_link_id is str(id); a failure is swallowed. The finally clause
\* (lines 81-82) releases the connection.
RsCacheSet(r) ==
    /\ rd[r].pc = "rs_set"
    /\ rd' = [rd EXCEPT ![r].pc = "rs_click", ![r].conn = Released]
    /\ \/ /\ cache' = RedisClientSet(Key(Api, "redirect:", rd[r].slug),
                         JsonDumps([tracking_link_id |-> IdStr(rd[r].lid),
                                    destination_url |->
                                       rd[r].link.obj.destination_url]))
          /\ UNCHANGED fails
       \/ /\ redis_connected[Api]
          /\ InjectFailure
          /\ UNCHANGED cache
    /\ UNCHANGED << webhook_vars, tracking_links, core_links, clicks,
                    redis_connected, ip_clicks, link_stats >>

\* The click is inserted, awaited, and the 302 is returned (lines 84-102):
\* conn = await db.get_connection(); await conn.execute(INSERT ...);
\* await db.release_connection(conn), with no finally. An exception is
\* swallowed: of get_connection, and `conn` is what it was, or of the
\* insert, and release_connection is skipped.
RsClick(r) ==
    /\ rd[r].pc = "rs_click"
    /\ LET url == rd[r].link.obj.destination_url
       IN \/ /\ clicks' = clicks \cup
                   { NewClick(Api, r, rd[r].lid, NoHash, 0, FALSE, FALSE) }
             /\ rd' = [rd EXCEPT ![r].pc = "done", ![r].status = 302,
                                 ![r].location = Location(url),
                                 ![r].conn = Released]
             /\ UNCHANGED fails
          \/ /\ InjectFailure
             /\ \E conn \in {rd[r].conn, NotReleased} :
                   rd' = [rd EXCEPT
                            ![r].pc = "done", ![r].status = 302,
                            ![r].location = Location(url),
                            ![r].err = IF @ = "none" THEN "click" ELSE @,
                            ![r].conn = conn]
             /\ UNCHANGED clicks
    /\ UNCHANGED << webhook_vars, tracking_links, core_links, redis_connected,
                    cache, ip_clicks, link_stats >>

redirect_slug(r) ==
    \/ RsReceive(r)
    \/ RsCacheGet(r)
    \/ RsQuery(r)
    \/ RsCacheSet(r)
    \/ RsClick(r)

----------------------------------------------------------------------------
(* GET /l/{slug}: handle_redirect (api/routes/redirects.py) *)

HrReceive(r) ==
    /\ RdCanArrive(r)
    /\ \E slug \in Slugs :
          rd' = RdArrived(r, "handle_redirect", "hr_cache", slug, FALSE)
    /\ UNCHANGED << webhook_vars, tracking_links, fails, core_links, clicks,
                    redis_connected, cache, ip_clicks, link_stats >>

\* The cache lookup (lines 52-58); RedisClient.get swallows its exceptions.
HrCacheGet(r) ==
    /\ rd[r].pc = "hr_cache"
    /\ \/ /\ LET cached_link == RedisClientGet(Key(Api, "link:", rd[r].slug))
             IN IF cached_link.type = "dict"
                THEN rd' = [rd EXCEPT ![r].link = cached_link, ![r].hit = TRUE,
                                      ![r].lid = cached_link.obj.id.v,
                                      ![r].pc = "hr_click"]
                ELSE rd' = [rd EXCEPT ![r].pc = "hr_query"]
          /\ UNCHANGED fails
       \/ /\ redis_connected[Api]
          /\ InjectFailure
          /\ rd' = [rd EXCEPT ![r].pc = "hr_query", ![r].err = "cache"]
    /\ UNCHANGED << webhook_vars, tracking_links, core_links, clicks,
                    redis_connected, cache, ip_clicks, link_stats >>

\* `if not link:` (lines 81-84): a 302 to "/".
HrNotFound(r) == AnswerRd(r, 302, Location(DefaultUrl), "none")

\* The store lookup (lines 60-79): link = dict(row), whose id is the UUID
\* the store returned; an exception is not caught.
HrQuery(r) ==
    /\ rd[r].pc = "hr_query"
    /\ \/ /\ IF ActiveLinks(rd[r].slug) = {}
             THEN HrNotFound(r)
             ELSE \E l \in ActiveLinks(rd[r].slug) :
                     rd' = [rd EXCEPT
                              ![r].link = Dict([id |-> Uuid(l),
                                                destination_url |-> LinkDest(l),
                                                influencer_id |->
                                                   LinkInfluencer(l)]),
                              ![r].lid = l, ![r].queried = TRUE,
                              ![r].pc = "hr_set"]
          /\ UNCHANGED fails
       \/ /\ InjectFailure
          /\ AnswerRd(r, 500, "", "store")
    /\ UNCHANGED << webhook_vars, tracking_links, core_links, clicks,
                    redis_connected, cache, ip_clicks, link_stats >>

\* redis_client.set(cache_key, link, ttl=3600) (line 77).
HrCacheSet(r) ==
    /\ rd[r].pc = "hr_set"
    /\ rd' = [rd EXCEPT ![r].pc = "hr_click"]
    /\ \/ /\ cache' = RedisClientSet(Key(Api, "link:", rd[r].slug), rd[r].link)
          /\ UNCHANGED fails
       \/ /\ redis_connected[Api]
          /\ InjectFailure
          /\ UNCHANGED cache
    /\ UNCHANGED << webhook_vars, tracking_links, core_links, clicks,
                    redis_connected, ip_clicks, link_stats >>

\* The 302 of lines 135-163.
HrRespond(r, err) ==
    AnswerRd(r, 302, Location(rd[r].link.obj.destination_url), err)

\* INSERT INTO clicks ... RETURNING id (lines 94-114), on a connection
\* without a transaction; an exception skips the rest of the try block.
HrClickInsert(r) ==
    /\ rd[r].pc = "hr_click"
    /\ \/ /\ clicks' = clicks \cup
                { NewClick(Api, r, rd[r].lid, hash_ip(ClientIp), 0,
                           FALSE, FALSE) }
          /\ rd' = [rd EXCEPT ![r].pc = "hr_update"]
          /\ UNCHANGED fails
       \/ /\ InjectFailure
          /\ HrRespond(r, "click")
          /\ UNCHANGED clicks
    /\ UNCHANGED << webhook_vars, tracking_links, core_links, redis_connected,
                    cache, ip_clicks, link_stats >>

\* UPDATE tracking_links SET total_clicks = total_clicks + 1 WHERE id = $1
IncrementTotalClicks(l) ==
    [tracking_links EXCEPT ![l].total_clicks = @ + 1]

\* The counter update, the broadcast of the click and the response (lines
\* 116-163); an exception of the update or of the broadcast is swallowed.
HrClickUpdate(r) ==
    /\ rd[r].pc = "hr_update"
    /\ \/ /\ tracking_links' = IncrementTotalClicks(rd[r].lid)
          /\ HrRespond(r, "none")
          /\ UNCHANGED fails
       \/ /\ InjectFailure
          /\ tracking_links' = IncrementTotalClicks(rd[r].lid)
          /\ HrRespond(r, "broadcast")
       \/ /\ InjectFailure
          /\ HrRespond(r, "click")
          /\ UNCHANGED tracking_links
    /\ UNCHANGED << webhook_vars, core_links, clicks, redis_connected, cache,
                    ip_clicks, link_stats >>

handle_redirect(r) ==
    \/ HrReceive(r)
    \/ HrCacheGet(r)
    \/ HrQuery(r)
    \/ HrCacheSet(r)
    \/ HrClickInsert(r)
    \/ HrClickUpdate(r)

----------------------------------------------------------------------------
(* GET /l/{slug} of core_api.py: redirect_link, ClickService.track_click *)

\* config.RATE_LIMIT_CLICKS: clicks of an IP per minute.
RATE_LIMIT_CLICKS == 100

\* The additive contributions to the fraud score, in hundredths: 0.5 for a
\* bot user-agent, 0.3 for an exceeded velocity.
BotScore == 50
VelocityScore == 30

\* except Exception: raise HTTPException(500, "Internal server error")
\* (redirect_link, lines 904-906).
CrExcept(r, err) == AnswerRd(r, 500, "", err)

\* redirect_link up to the cache lookup of track_click (lines 875-878,
\* 594-596); the user-agent holds a bot indicator or not.
CrReceive(r) ==
    /\ RdCanArrive(r)
    /\ \E slug \in Slugs, bot \in BOOLEAN :
          rd' = RdArrived(r, "redirect_link",
                          IF redis_connected[CoreApi] THEN "cr_cache"
                          ELSE "cr_query", slug, bot)
    /\ UNCHANGED << webhook_vars, tracking_links, fails, core_links, clicks,
                    redis_connected, cache, ip_clicks, link_stats >>

\* cached = await db.redis.get(f"link:{slug}") and json.loads(cached) (lines
\* 597-599).
CrCacheGet(r) ==
    /\ rd[r].pc = "cr_cache"
    /\ \/ /\ LET cached == cache[Key(CoreApi, "link:", rd[r].slug)]
             IN IF cached.type = "str"
                THEN rd' = [rd EXCEPT ![r].link = JsonLoads(cached),
                                      ![r].hit = TRUE,
                                      ![r].lid = cached.obj.id.v,
                                      ![r].pc = "cr_fraud"]
                ELSE rd' = [rd EXCEPT ![r].pc = "cr_query"]
          /\ UNCHANGED fails
       \/ /\ InjectFailure
          /\ CrExcept(r, "cache")
    /\ UNCHANGED << webhook_vars, tracking_links, core_links, clicks,
                    redis_connected, cache, ip_clicks, link_stats >>

\* SELECT ... FROM tracking_links WHERE slug = $1 AND active = true
CoreActiveLinks(slug) ==
    { l \in Links : LinkSlug(l) = slug /\ core_links[l].active }

\* The store lookup (lines 601-622); the descriptor is not cached.
CrQuery(r) ==
    /\ rd[r].pc = "cr_query"
    /\ \/ /\ IF CoreActiveLinks(rd[r].slug) = {}
             THEN AnswerRd(r, 404, "", "none")
             ELSE \E l \in CoreActiveLinks(rd[r].slug) :
                     rd' = [rd EXCEPT
                              ![r].link = Dict([id |-> IdStr(l),
                                                destination |-> LinkDest(l),
                                                influencer_id |->
                                                   LinkInfluencer(l)]),
                              ![r].lid = l, ![r].queried = TRUE,
                              ![r].pc = "cr_fraud"]
          /\ UNCHANGED fails
       \/ /\ InjectFailure
          /\ CrExcept(r, "store")
    /\ UNCHANGED << webhook_vars, tracking_links, core_links, clicks,
                    redis_connected, cache, ip_clicks, link_stats >>

\* A score that the bot user-agent alone decides.
BotOnlyScore(is_bot, velocity_exceeded) ==
    IF is_bot THEN BotScore ELSE 0

\* fraud_signals['score'] of check_fraud_signals (lines 565-589).
FraudScore(is_bot, velocity_exceeded) ==
    (IF is_bot THEN BotScore ELSE 0) +
    (IF velocity_exceeded THEN VelocityScore ELSE 0)

\* `if count > config.RATE_LIMIT_CLICKS:` (line 585)
VelocityExceeded(count) == count > RATE_LIMIT_CLICKS

\* A Redis counter key: its count (0: the key does not exist) and whether
\* it carries an expiry.
NoKey == [count |-> 0, expires |-> FALSE]

\* INCR key: creates the key at 1 without expiry, else adds 1 and keeps the
\* expiry the key has.
Incr(key) == [key EXCEPT !.count = @ + 1]

\* EXPIRE key 60
Expire(key) == [key EXCEPT !.expires = key.count > 0]

\* The velocity signal and the score once the count is known.
CrScored(r, count) ==
    [rd EXCEPT ![r].velocity = VelocityExceeded(count),
               ![r].score = FraudScore(rd[r].bot, VelocityExceeded(count)),
               ![r].pc = "cr_insert"]

\* check_fraud_signals (lines 562-589): the bot indicators and, with Redis,
\* count = await db.redis.incr(key); a count of 1 goes on to the EXPIRE.
CrFraud(r) ==
    /\ rd[r].pc = "cr_fraud"
    /\ \/ /\ IF redis_connected[CoreApi]
             THEN LET name == VelocityKey(ClientIp)
                      key == Incr(ip_clicks[name])
                  IN /\ ip_clicks' = [ip_clicks EXCEPT ![name] = key]
                     /\ rd' = IF key.count = 1
                              THEN [rd EXCEPT ![r].pc = "cr_expire"]
                              ELSE CrScored(r, key.count)
             ELSE /\ rd' = [rd EXCEPT
                              ![r].score = FraudScore(rd[r].bot, FALSE),
                              ![r].pc = "cr_insert"]
                  /\ UNCHANGED ip_clicks
          /\ UNCHANGED fails
       \/ /\ redis_connected[CoreApi]
          /\ InjectFailure
          /\ CrExcept(r, "cache")
          /\ UNCHANGED ip_clicks
    /\ UNCHANGED << webhook_vars, tracking_links, core_links, clicks,
                    redis_connected, cache, link_stats >>

\* `if count == 1: await db.redis.expire(key, 60)` (lines 583-584), a
\* second round trip to Redis.
CrExpire(r) ==
    /\ rd[r].pc = "cr_expire"
    /\ \/ /\ ip_clicks' =
                [ip_clicks EXCEPT ![VelocityKey(ClientIp)] = Expire(@)]
          /\ rd' = CrScored(r, 1)
          /\ UNCHANGED fails
       \/ /\ InjectFailure
          /\ CrExcept(r, "cache")
          /\ UNCHANGED ip_clicks
    /\ UNCHANGED << webhook_vars, tracking_links, core_links, clicks,
                    redis_connected, cache, link_stats >>

\* The 302 of redirect_link (lines 879-900).
CrRespond(r) ==
    AnswerRd(r, 302, Location(rd[r].link.obj.destination), "none")

\* INSERT INTO clicks (..., fraud_score, fraud_flags) (lines 646-659).
CrInsert(r) ==
    /\ rd[r].pc = "cr_insert"
    /\ \/ /\ clicks' = clicks \cup
                { NewClick(CoreApi, r, rd[r].lid, CoreIpHash(ClientIp),
                           rd[r].score, rd[r].bot,
                           rd[r].velocity) }
          /\ IF redis_connected[CoreApi]
             THEN rd' = [rd EXCEPT ![r].pc = "cr_stats"]
             ELSE CrRespond(r)
          /\ UNCHANGED fails
       \/ /\ InjectFailure
          /\ CrExcept(r, "click")
          /\ UNCHANGED clicks
    /\ UNCHANGED << webhook_vars, tracking_links, core_links, redis_connected,
                    cache, ip_clicks, link_stats >>

\* The Redis statistics and the latest click of the device (lines 661-677),
\* then the response.
CrStats(r) ==
    /\ rd[r].pc = "cr_stats"
    /\ \/ /\ link_stats' = [link_stats EXCEPT ![rd[r].slug] = @ + 1]
          /\ CrRespond(r)
          /\ UNCHANGED fails
       \/ /\ InjectFailure
          /\ CrExcept(r, "cache")
          /\ UNCHANGED link_stats
    /\ UNCHANGED << webhook_vars, tracking_links, core_links, clicks,
                    redis_connected, cache, ip_clicks >>

redirect_link(r) ==
    \/ CrReceive(r)
    \/ CrCacheGet(r)
    \/ CrQuery(r)
    \/ CrFraud(r)
    \/ CrExpire(r)
    \/ CrInsert(r)
    \/ CrStats(r)

----------------------------------------------------------------------------
(* Python float (IEEE 754 double) and Decimal arithmetic *)

\* A natural number of any size is the sequence of its digits in base 2^10
\* ("limbs"), lowest first, without high zero limbs.
LimbBits == 10

RECURSIVE Pow2(_)
Pow2(n) == IF n = 0 THEN 1 ELSE 2 * Pow2(n - 1)

Base == Pow2(LimbBits)

RECURSIVE NatLimbs(_)
NatLimbs(n) == IF n = 0 THEN << >> ELSE << n % Base >> \o NatLimbs(n \div Base)

LimbAt(a, i) == IF 1 <= i /\ i <= Len(a) THEN a[i] ELSE 0

\* The sequence without its high zero limbs.
Trim(a) ==
    LET used == { i \in 1..Len(a) : a[i] # 0 }
    IN IF used = {} THEN << >>
       ELSE SubSeq(a, 1, CHOOSE i \in used : \A j \in used : j <= i)

\* The number whose digit i is the (possibly larger than a limb) number
\* cols[i]: the carries are propagated upwards.
RECURSIVE Carried(_, _, _)
Carried(cols, i, carry) ==
    IF i > Len(cols)
    THEN NatLimbs(carry)
    ELSE << (cols[i] + carry) % Base >> \o
         Carried(cols, i + 1, (cols[i] + carry) \div Base)

Normalize(cols) == Trim(Carried(cols, 1, 0))

MaxLen(a, b) == IF Len(a) > Len(b) THEN Len(a) ELSE Len(b)

AddNat(a, b) ==
    Normalize([i \in 1..MaxLen(a, b) |-> LimbAt(a, i) + LimbAt(b, i)])

\* a - b for a >= b.
RECURSIVE Borrowed(_, _, _, _)
Borrowed(a, b, i, borrow) ==
    IF i > Len(a) THEN << >>
    ELSE LET d == a[i] - LimbAt(b, i) - borrow
         IN << d % Base >> \o Borrowed(a, b, i + 1, IF d < 0 THEN 1 ELSE 0)

SubNat(a, b) == Trim(Borrowed(a, b, 1, 0))

\* a * n for a small number n.
MulSmall(a, n) == Normalize([i \in 1..Len(a) |-> a[i] * n])

\* a * b: digit k of the product sums the a[i] * b[j] with i + j = k + 1.
RECURSIVE Column(_, _, _, _)
Column(a, b, k, i) ==
    IF i > Len(a) THEN 0
    ELSE a[i] * LimbAt(b, k + 1 - i) + Column(a, b, k, i + 1)

MulNat(a, b) ==
    Normalize([k \in 1..(Len(a) + Len(b)) |-> Column(a, b, k, 1)])

\* a * 2^n and the whole part of a / 2^n.
ShiftLeft(a, n) ==
    IF a = << >> THEN a
    ELSE [i \in 1..(n \div LimbBits) |-> 0] \o MulSmall(a, Pow2(n % LimbBits))

ShiftRight(a, n) ==
    LET r == n % LimbBits
        b == SubSeq(a, n \div LimbBits + 1, Len(a))
    IN Trim([i \in 1..Len(b) |->
                b[i] \div Pow2(r) +
                (LimbAt(b, i + 1) % Pow2(r)) * Pow2(LimbBits - r)])

RECURSIVE SmallBitLength(_)
SmallBitLength(n) == IF n = 0 THEN 0 ELSE 1 + SmallBitLength(n \div 2)

BitLength(a) ==
    IF a = << >> THEN 0
    ELSE LimbBits * (Len(a) - 1) + SmallBitLength(a[Len(a)])

Odd(a) == LimbAt(a, 1) % 2 = 1

\* The quotient and the remainder of a by the small number d, the limbs of
\* a taken from the highest down.
RECURSIVE Divided(_, _, _, _)
Divided(a, d, i, rem) ==
    IF i = 0 THEN [q |-> << >>, r |-> rem]
    ELSE LET x == Base * rem + a[i]
             low == Divided(a, d, i - 1, x % d)
         IN [q |-> low.q \o << x \div d >>, r |-> low.r]

DivSmall(a, d) ==
    LET res == Divided(a, d, Len(a), 0)
    IN [q |-> Trim(res.q), r |-> res.r]

\* A double is m * 2^e with m of 53 bits (zero: m empty).
MantissaBits == 53

\* The double nearest to n * 2^e (plus a fraction of the last bit when
\* `sticky`), ties to the even mantissa.
RoundToDouble(n, e, sticky) ==
    LET k == BitLength(n) - MantissaBits
    IN IF n = << >> THEN [m |-> << >>, e |-> 0]
       ELSE IF k <= 0
       THEN [m |-> ShiftLeft(n, -k), e |-> e + k]
       ELSE LET kept == ShiftRight(n, k)
                half == Odd(ShiftRight(n, k - 1))
                rest == sticky \/
                        ShiftLeft(ShiftRight(n, k - 1), k - 1) # n
                up == half /\ (rest \/ Odd(kept))
                m == IF up THEN AddNat(kept, << 1 >>) ELSE kept
            IN IF BitLength(m) > MantissaBits
               THEN [m |-> ShiftRight(m, 1), e |-> e + k + 1]
               ELSE [m |-> m, e |-> e + k]

\* x * y of two floats.
FloatMul(x, y) == RoundToDouble(MulNat(x.m, y.m), x.e + y.e, FALSE)

\* x - y of two floats, x >= y >= 0.
FloatSub(x, y) ==
    LET e == IF x.e < y.e THEN x.e ELSE y.e
    IN RoundToDouble(SubNat(ShiftLeft(x.m, x.e - e), ShiftLeft(y.m, y.e - e)),
                     e, FALSE)

RECURSIVE Pow10(_)
Pow10(s) == IF s = 0 THEN 1 ELSE 10 * Pow10(s - 1)

\* A Decimal: coef * 10^-scale.
Dec(coef, scale) == [coef |-> coef, scale |-> scale]

DecMul(x, y) == Dec(x.coef * y.coef, x.scale + y.scale)

DecSub(x, y) ==
    LET s == IF x.scale > y.scale THEN x.scale ELSE y.scale
    IN Dec(x.coef * Pow10(s - x.scale) - y.coef * Pow10(s - y.scale), s)

\* float(d) of a Decimal or of its text: the nearest double.
GuardBits == 80
FloatOf(d) ==
    LET quot == DivSmall(ShiftLeft(NatLimbs(d.coef), GuardBits),
                         Pow10(d.scale))
    IN RoundToDouble(quot.q, -GuardBits, quot.r # 0)

\* An amount as a binary fraction m * 2^e, in units of 10^-MoneyScale.
MoneyScale == 5
ExactOfFloat(x) == [m |-> MulSmall(x.m, Pow10(MoneyScale)), e |-> x.e]
ExactOfDec(d) ==
    [m |-> NatLimbs(d.coef * Pow10(MoneyScale - d.scale)), e |-> 0]

ExactTimes(x, n) == [m |-> MulSmall(x.m, n), e |-> x.e]
ExactPlus(x, y) ==
    LET e == IF x.e < y.e THEN x.e ELSE y.e
    IN [m |-> AddNat(ShiftLeft(x.m, x.e - e), ShiftLeft(y.m, y.e - e)),
        e |-> e]
ExactEqual(x, y) ==
    LET e == IF x.e < y.e THEN x.e ELSE y.e
    IN ShiftLeft(x.m, x.e - e) = ShiftLeft(y.m, y.e - e)

----------------------------------------------------------------------------
(* Commission computation: handle_refersion_webhook (api) and             *)
(* WebhookProcessor.process_attribution (core_api)                        *)

\* A monetary value of the program: a Decimal or a float; Unset before it
\* is computed.
Unset == [t |-> "unset"]
DecimalValue(d) == [t |-> "decimal", d |-> d]
FloatValue(f) == [t |-> "float", f |-> f]

\* The value as an exact binary fraction, in units of 10^-MoneyScale.
Exact(v) == IF v.t = "decimal" THEN ExactOfDec(v.d) ELSE ExactOfFloat(v.f)

\* The text "0.20" of the fee rate: Decimal("0.20") in the api package,
\* float(os.getenv('PLATFORM_FEE_RATE', '0.20')) in core_api.
FeeRateText == Dec(20, 2)

\* A value stored in a DECIMAL(10,2) column: rounded to cents, half away
\* from zero.
Numeric2(d) ==
    IF d.scale <= 2 THEN Dec(d.coef * Pow10(2 - d.scale), 2)
    ELSE Dec((d.coef + 5 * Pow10(d.scale - 3)) \div Pow10(d.scale - 2), 2)

\* The payloads and programs of the computations.
\*   refersion: sale_amount and commission_amount of the payload,
\*              commission_rate (percent) of the link's program
\*   core_api:  subtotal_price of the order, commission_type and
\*              commission_value of the link's program
SaleAmounts == { Dec(7500, 2), Dec(10000, 2) }
CommissionAmounts ==
    { Dec(2000, 2), Dec(1500, 2), Dec(750, 2), Dec(1001, 2), Dec(3, 2) }
CommissionRates == { Dec(10, 0), Dec(20, 0) }
Subtotals ==
    { Dec(10000, 2), Dec(7500, 2), Dec(1100, 2), Dec(1999, 2), Dec(435, 2) }
PercentValues == { Dec(10, 2), Dec(15, 2), Dec(20, 2) }
FixedValues == { Dec(500, 2), Dec(435, 2), Dec(2000, 2) }

IdleCm == [pc |-> "idle", handler |-> "none", subtotal |-> Dec(0, 2),
           commission_amount |-> Dec(0, 2), commission_type |-> "percent",
           commission_value |-> Dec(0, 2), gross |-> Unset,
           platform_fee |-> Unset, net_amount |-> Unset, row |-> Unset]

CmInput(handler, subtotal, amount, type, value) ==
    [IdleCm EXCEPT !.pc = "start", !.handler = handler,
                   !.subtotal = subtotal, !.commission_amount = amount,
                   !.commission_type = type, !.commission_value = value]

CmInputs ==
    { CmInput("refersion", s, a, "percent", v) :
         s \in SaleAmounts, a \in CommissionAmounts, v \in CommissionRates }
    \cup
    { CmInput("core_api", s, Dec(0, 2), "percent", v) :
         s \in Subtotals, v \in PercentValues }
    \cup
    { CmInput("core_api", s, Dec(0, 2), "fixed", v) :
         s \in Subtotals, v \in FixedValues }

\* What a step of the computation leaves alone.
commission_frame == << production, shopify_secret, webhook_events, conversions,
                       commissions, attributions, tracking_links, req, calls,
                       fails, redirect_vars, creation_vars, pw,
                       library_vars >>

\* platform_fee = webhook.commission_amount * Decimal("0.20");
\* net_amount = webhook.commission_amount - platform_fee
\* (webhooks.py, lines 152-154); the gross is the payload's
\* commission_amount.
RefersionCommission ==
    /\ cm.pc = "start" /\ cm.handler = "refersion"
    /\ LET gross == cm.commission_amount
           platform_fee == DecMul(gross, FeeRateText)
           net_amount == DecSub(gross, platform_fee)
       IN cm' = [cm EXCEPT !.gross = DecimalValue(gross),
                           !.platform_fee = DecimalValue(platform_fee),
                           !.net_amount = DecimalValue(net_amount),
                           !.pc = "computed"]
    /\ UNCHANGED commission_frame

\* INSERT INTO commissions (..., amount, platform_fee, net_amount, ...)
\* (webhooks.py, lines 156-171), the columns being DECIMAL(10,2).
RefersionInsert ==
    /\ cm.pc = "computed" /\ cm.handler = "refersion"
    /\ cm' = [cm EXCEPT
                !.row = [amount |-> DecimalValue(Numeric2(cm.gross.d)),
                         platform_fee |->
                            DecimalValue(Numeric2(cm.platform_fee.d)),
                         net_amount |->
                            DecimalValue(Numeric2(cm.net_amount.d))],
                !.pc = "stored"]
    /\ UNCHANGED commission_frame

\* gross_commission (core_api.py, lines 793-797).
CoreGross ==
    /\ cm.pc = "start" /\ cm.handler = "core_api"
    /\ cm' = [cm EXCEPT
                !.gross =
                   FloatValue(IF cm.commission_type = "percent"
                              THEN FloatMul(FloatOf(cm.subtotal),
                                            FloatOf(cm.commission_value))
                              ELSE FloatOf(cm.commission_value)),
                !.pc = "gross"]
    /\ UNCHANGED commission_frame

\* platform_fee = gross_commission * config.PLATFORM_FEE_RATE;
\* net_commission = gross_commission - platform_fee (lines 799-800).
CoreFee ==
    /\ cm.pc = "gross"
    /\ LET platform_fee == FloatMul(cm.gross.f, FloatOf(FeeRateText))
       IN cm' = [cm EXCEPT
                   !.platform_fee = FloatValue(platform_fee),
                   !.net_amount = FloatValue(FloatSub(cm.gross.f,
                                                      platform_fee)),
                   !.pc = "computed"]
    /\ UNCHANGED commission_frame

\* INSERT INTO commissions (..., gross_amount, platform_fee, net_amount,
\* status) (lines 802-814), the columns being REAL.
CoreInsert ==
    /\ cm.pc = "computed" /\ cm.handler = "core_api"
    /\ cm' = [cm EXCEPT !.row = [amount |-> cm.gross,
                                 platform_fee |-> cm.platform_fee,
                                 net_amount |-> cm.net_amount],
                        !.pc = "stored"]
    /\ UNCHANGED commission_frame

----------------------------------------------------------------------------
(* Link creation: create_tracking_link (POST /api/links/create,
   api/routes/links.py) and LinkService.create_link (core_api.py) *)

\* The slugs a request may choose, at random or as its custom_slug: those
\* of the two links of the store and two that no link has.
SlugChoices == {"s1", "s2", "n1", "n2"}
\* No custom_slug in the request.
NoCustomSlug == ""

\* max_attempts of create_tracking_link; range(10) of create_link.
MaxAttempts(app) == IF app = Api THEN 5 ELSE 10

IdleLk == [kind |-> "none", pc |-> "idle", custom_slug |-> NoCustomSlug,
           program |-> TRUE, slug |-> "", attempts |-> 0, status |-> 0,
           err |-> "none"]

LkDone(r) == lk[r].pc = "done"

AnswerLk(r, code, err) ==
    lk' = [lk EXCEPT ![r].pc = "done", ![r].status = code, ![r].err = err]

\* No link creation has run.
CreationIdle ==
    /\ new_links = {}
    /\ link_cache = {}
    /\ lk = [r \in Reqs |-> IdleLk]

\* What link creation leaves alone.
creation_frame == << production, shopify_secret, webhook_events, conversions,
                     commissions, attributions, tracking_links, req, calls,
                     cm, redirect_vars, pw, library_vars >>

\* An existence test that skips the deactivated links of the table.
SlugExistsAmongActive(app, slug) ==
    \/ \E l \in Links :
          /\ LinkSlug(l) = slug
          /\ IF app = Api THEN tracking_links[l].is_active
             ELSE core_links[l].active
    \/ \E row \in new_links : row.db = app /\ row.slug = slug

\* SELECT ... FROM tracking_links WHERE slug = $1, whatever is_active is;
\* also what the constraint `slug TEXT UNIQUE NOT NULL` compares.
SlugExists(app, slug) ==
    \/ \E l \in Links : LinkSlug(l) = slug
    \/ \E row \in new_links : row.db = app /\ row.slug = slug

\* INSERT INTO tracking_links (...): the row of the new link.
NewLink(db, id, slug) == [db |-> db, id |-> id, slug |-> slug]

\* A statement of link creation fails in the store.
LkStoreFails(r) ==
    /\ lk[r].pc \in {"ct_generate", "ct_insert", "ct_cache", "cl_custom",
                      "cl_generate", "cl_program", "cl_insert"}
    /\ InjectFailure
    /\ AnswerLk(r, 500, "store")
    /\ UNCHANGED << creation_frame, new_links, link_cache >>

\* POST /api/links/create up to the acquisition of the connection.
CtArrive(r) ==
    /\ lk[r].pc = "idle"
    /\ lk' = [lk EXCEPT ![r].kind = "create_tracking_link",
                        ![r].pc = "ct_generate"]
    /\ UNCHANGED << creation_frame, fails, new_links, link_cache >>

\* One turn of the loop (lines 47-60): a random candidate and the test of
\* its existence; 500 after max_attempts candidates that all exist.
CtGenerate(r) ==
    /\ lk[r].pc = "ct_generate"
    /\ \E candidate \in SlugChoices :
          IF ~SlugExists(Api, candidate)
          THEN lk' = [lk EXCEPT ![r].slug = candidate, ![r].pc = "ct_insert"]
          ELSE IF lk[r].attempts + 1 = MaxAttempts(Api)
               THEN AnswerLk(r, 500, "no_slug")
               ELSE lk' = [lk EXCEPT ![r].attempts = @ + 1]
    /\ UNCHANGED << creation_frame, fails, new_links, link_cache >>

\* INSERT INTO tracking_links ... RETURNING id (lines 87-98), committed on
\* its own; the UniqueViolationError of the slug is not caught.
CtInsert(r) ==
    /\ lk[r].pc = "ct_insert"
    /\ IF SlugExists(Api, lk[r].slug)
       THEN /\ AnswerLk(r, 500, "unique")
            /\ UNCHANGED new_links
       ELSE /\ new_links' = new_links \cup { NewLink(Api, r, lk[r].slug) }
            /\ lk' = [lk EXCEPT ![r].pc = "ct_cache"]
    /\ UNCHANGED << creation_frame, fails, link_cache >>

\* The cookie window of the program is read and the descriptor cached under
\* link:<slug> (lines 100-119); redis_client.set does nothing without a
\* connection.
CtCache(r) ==
    /\ lk[r].pc = "ct_cache"
    /\ link_cache' = IF redis_connected[Api]
                     THEN link_cache \cup { Key(Api, "link:", lk[r].slug) }
                     ELSE link_cache
    /\ AnswerLk(r, 200, "none")
    /\ UNCHANGED << creation_frame, fails, new_links >>

create_tracking_link(r) ==
    \/ CtArrive(r)
    \/ CtGenerate(r)
    \/ CtInsert(r)
    \/ CtCache(r)

\* POST /api/links of core_api: with a custom_slug or without one, for a
\* program that exists or not.
ClArrive(r) ==
    /\ lk[r].pc = "idle"
    /\ \E custom \in SlugChoices \cup {NoCustomSlug}, program \in BOOLEAN :
          lk' = [lk EXCEPT ![r].kind = "create_link",
                           ![r].custom_slug = custom,
                           ![r].program = program,
                           ![r].pc = IF custom # NoCustomSlug THEN "cl_custom"
                                     ELSE "cl_generate"]
    /\ UNCHANGED << creation_frame, fails, new_links, link_cache >>

\* `if request.custom_slug:` (lines 451-459): 400 when a link has the slug.
ClCustom(r) ==
    /\ lk[r].pc = "cl_custom"
    /\ IF SlugExists(CoreApi, lk[r].custom_slug)
       THEN AnswerLk(r, 400, "exists")
       ELSE lk' = [lk EXCEPT ![r].slug = lk[r].custom_slug,
                             ![r].pc = "cl_program"]
    /\ UNCHANGED << creation_frame, fails, new_links, link_cache >>

\* One turn of `for _ in range(10)` (lines 460-471).
ClGenerate(r) ==
    /\ lk[r].pc = "cl_generate"
    /\ \E candidate \in SlugChoices :
          IF ~SlugExists(CoreApi, candidate)
          THEN lk' = [lk EXCEPT ![r].slug = candidate, ![r].pc = "cl_program"]
          ELSE IF lk[r].attempts + 1 = MaxAttempts(CoreApi)
               THEN AnswerLk(r, 500, "no_slug")
               ELSE lk' = [lk EXCEPT ![r].attempts = @ + 1]
    /\ UNCHANGED << creation_frame, fails, new_links, link_cache >>

\* The program and the product are read (lines 473-494): 404 without the
\* program.
ClProgram(r) ==
    /\ lk[r].pc = "cl_program"
    /\ IF lk[r].program
       THEN lk' = [lk EXCEPT ![r].pc = "cl_insert"]
       ELSE AnswerLk(r, 404, "program")
    /\ UNCHANGED << creation_frame, fails, new_links, link_cache >>

\* INSERT INTO tracking_links (lines 514-526), committed on its own; the
\* IntegrityError of the slug is not caught.
ClInsert(r) ==
    /\ lk[r].pc = "cl_insert"
    /\ IF SlugExists(CoreApi, lk[r].slug)
       THEN /\ AnswerLk(r, 500, "unique")
            /\ UNCHANGED new_links
       ELSE /\ new_links' = new_links \cup { NewLink(CoreApi, r, lk[r].slug) }
            /\ lk' = [lk EXCEPT ![r].pc = "cl_cache"]
    /\ UNCHANGED << creation_frame, fails, link_cache >>

\* `if db.redis: await db.redis.setex("link:<slug>", ...)` (lines 528-541);
\* a failure of Redis is not caught.
ClCache(r) ==
    /\ lk[r].pc = "cl_cache"
    /\ \/ /\ link_cache' =
                IF redis_connected[CoreApi]
                THEN link_cache \cup { Key(CoreApi, "link:", lk[r].slug) }
                ELSE link_cache
          /\ AnswerLk(r, 200, "none")
          /\ UNCHANGED fails
       \/ /\ redis_connected[CoreApi]
          /\ InjectFailure
          /\ AnswerLk(r, 500, "cache")
          /\ UNCHANGED link_cache
    /\ UNCHANGED << creation_frame, new_links >>

create_link(r) ==
    \/ ClArrive(r)
    \/ ClCustom(r)
    \/ ClGenerate(r)
    \/ ClProgram(r)
    \/ ClInsert(r)
    \/ ClCache(r)

----------------------------------------------------------------------------
(* The life of a cached descriptor: prewarm_cache at startup
   (api/routes/redirect.py), the TTL of Redis, and the deactivation of a
   link in the store by the link management *)

\* prewarm_cache has not run; it has run to its end.
StartupIdle == [pc |-> "idle", rows |-> {}]
StartupDone == [pc |-> "done", rows |-> {}]

\* What the startup, the TTL and a deactivation leave alone.
lifetime_frame == << production, shopify_secret, webhook_events, conversions,
                     commissions, attributions, req, calls, cm, creation_vars,
                     core_links, clicks, redis_connected, ip_clicks,
                     link_stats, rd, library_vars >>

\* SELECT id, slug, destination_url FROM tracking_links
\* WHERE is_active = true (lines 112-116); an exception ends the startup
\* hook (lines 137-138).
PwFetch ==
    /\ pw.pc = "idle"
    /\ \/ /\ pw' = [pc |-> "set",
                    rows |-> { l \in Links : tracking_links[l].is_active }]
          /\ UNCHANGED fails
       \/ /\ InjectFailure
          /\ pw' = StartupDone
    /\ UNCHANGED << lifetime_frame, tracking_links, cache >>

\* One turn of `for row in rows:` (lines 119-133): the descriptor of the
\* row is cached under redirect:<slug> with CACHE_TTL.
PwSet ==
    /\ pw.pc = "set"
    /\ IF pw.rows = {}
       THEN /\ pw' = StartupDone
            /\ UNCHANGED cache
       ELSE \E l \in pw.rows :
               /\ cache' = RedisClientSet(Key(Api, "redirect:", LinkSlug(l)),
                                          Str(PrewarmData(l)))
               /\ pw' = [pw EXCEPT !.rows = @ \ {l}]
    /\ UNCHANGED << lifetime_frame, tracking_links, fails >>

prewarm_cache == PwFetch \/ PwSet

\* The TTL of a key of the api application passes: Redis deletes the entry.
CacheExpires ==
    /\ \E k \in CacheKeys :
          /\ k[1] = Api
          /\ cache[k] # NoneValue
          /\ cache' = [cache EXCEPT ![k] = NoneValue]
    /\ UNCHANGED << lifetime_frame, tracking_links, fails, pw >>

\* The link management sets is_active = false on a link of the store.
Deactivate ==
    /\ \E l \in Links :
          /\ tracking_links[l].is_active
          /\ tracking_links' = [tracking_links EXCEPT ![l].is_active = FALSE]
    /\ UNCHANGED << lifetime_frame, cache, fails, pw >>

----------------------------------------------------------------------------
(* The rate-limiting middleware: RateLimiter (lib/rate_limiter.py) *)

\* requests_per_minute and requests_per_hour of the limiter.
requests_per_minute == 2
requests_per_hour == 3
\* The windows of the two limits, in seconds.
MinuteWindow == 60
HourWindow == 3600

\* The clients (_get_client_id) and the paths of the requests: one path the
\* middleware skips, one it limits.
Clients == {"c1", "c2"}
Paths == {"/health", "/api/links"}
SkippedPaths == {"/health"}

\* The seconds by which time advances between two events.
Steps == {1, 59, 3540}
\* Number of advances of time and of requests in one behaviour.
MaxTicks == 3
MaxAnswered == 5

\* The state of the two services.
service_vars == << production, shopify_secret, webhook_events, conversions,
                   commissions, attributions, tracking_links, req, calls,
                   fails, cm, creation_vars, redirect_vars, pw >>

\* What the middleware and time leave alone.
application_vars == << service_vars, counter_vars, validation,
                       history_vars >>

\* The limiter after __init__, at time 0.
LimiterIdle ==
    /\ rate_limiter = [minute_buckets |-> [c \in Clients |-> << >>],
                       hour_buckets |-> [c \in Clients |-> << >>]]
    /\ clock = [now |-> 0, ticks |-> 0]
    /\ answered = << >>

\* [t for t in bucket if t > cutoff]
NewerThan(bucket, cutoff) == SelectSeq(bucket, LAMBDA t : t > cutoff)

\* A limit that lets one more request through.
ReachedAbove(count, limit) == count > limit

\* `if minute_requests >= self.requests_per_minute:` (line 91) and
\* `if hour_requests >= self.requests_per_hour:` (line 111).
Reached(count, limit) == count >= limit

\* A limiter that counts the request it rejects.
RejectedCounted(limiter, client_id, current_time) ==
    [limiter EXCEPT
        !.minute_buckets[client_id] = Append(@, current_time),
        !.hour_buckets[client_id] = Append(@, current_time)]

\* `return False, {...}` (lines 96-101, 116-121): nothing is appended.
Rejected(limiter, client_id, current_time) == limiter

\* _check_rate_limit (lines 74-136): the result `allowed` and the limiter
\* after the call.
RateLimiterCheck(client_id, current_time) ==
    LET minute == NewerThan(rate_limiter.minute_buckets[client_id],
                            current_time - MinuteWindow)
        cleaned == [rate_limiter EXCEPT !.minute_buckets[client_id] = minute]
        hour == NewerThan(rate_limiter.hour_buckets[client_id],
                          current_time - HourWindow)
        hourly == [cleaned EXCEPT !.hour_buckets[client_id] = hour]
    IN IF Reached(Len(minute), requests_per_minute)
       THEN [allowed |-> FALSE,
             limiter |-> Rejected(cleaned, client_id, current_time)]
       ELSE IF Reached(Len(hour), requests_per_hour)
       THEN [allowed |-> FALSE,
             limiter |-> Rejected(hourly, client_id, current_time)]
       ELSE [allowed |-> TRUE,
             limiter |-> [hourly EXCEPT
                            !.minute_buckets[client_id] =
                               Append(@, current_time),
                            !.hour_buckets[client_id] =
                               Append(@, current_time)]]

\* The answer of the middleware to a request: whether the limiter was asked,
\* the status, and whether call_next ran.
Answered(client, path, checked, status, downstream) ==
    [client |-> client, path |-> path, at |-> clock.now, checked |-> checked,
     status |-> status, downstream |-> downstream]

\* RateLimiter.__call__ on a path it skips (lines 141-143): call_next runs
\* and the limiter is not asked.
CallSkipped ==
    /\ Len(answered) < MaxAnswered
    /\ \E client \in Clients, path \in SkippedPaths :
          answered' = Append(answered,
                             Answered(client, path, FALSE, 200, TRUE))
    /\ UNCHANGED << application_vars, rate_limiter, clock >>

\* RateLimiter.__call__ on any other path (lines 145-171): 429 without
\* call_next when the check rejects, else the response of the handler.
CallLimited ==
    /\ Len(answered) < MaxAnswered
    /\ \E client \in Clients, path \in Paths \ SkippedPaths :
          LET result == RateLimiterCheck(client, clock.now)
          IN /\ rate_limiter' = result.limiter
             /\ answered' =
                   Append(answered,
                          IF result.allowed
                          THEN Answered(client, path, TRUE, 200, TRUE)
                          ELSE Answered(client, path, TRUE, 429, FALSE))
    /\ UNCHANGED << application_vars, clock >>

\* One round of _cleanup_old_entries (lines 39-62); a key without entries
\* is deleted, and the defaultdict answers the empty list for it.
CleanupOldEntries ==
    /\ rate_limiter' =
          [minute_buckets |->
              [c \in Clients |->
                  NewerThan(rate_limiter.minute_buckets[c],
                            clock.now - MinuteWindow)],
           hour_buckets |->
              [c \in Clients |->
                  NewerThan(rate_limiter.hour_buckets[c],
                            clock.now - HourWindow)]]
    /\ rate_limiter' # rate_limiter
    /\ UNCHANGED << application_vars, clock, answered >>

\* Time passes.
Tick ==
    /\ clock.ticks < MaxTicks
    /\ \E step \in Steps :
          clock' = [now |-> clock.now + step, ticks |-> clock.ticks + 1]
    /\ UNCHANGED << application_vars, rate_limiter, answered >>

----------------------------------------------------------------------------
(* The rate limit kept in Redis: RedisClient.check_rate_limit *)

\* The keys, the limit and the window (seconds) the callers pass.
RateKeys == {"k1", "k2"}
RateLimit == 2
RateWindow == 60
\* Number of calls in one behaviour.
MaxChecks == 4

\* What check_rate_limit leaves alone.
beside_counters == << service_vars, limiter_vars, validation,
                      history_vars >>

\* A key Redis does not hold.
NoCounter == [count |-> 0, expires_at |-> 0]

\* No key is held and no call was made.
CountersIdle ==
    /\ counters = [k \in RateKeys |-> NoCounter]
    /\ checks = << >>

\* Redis holds the key until the second its time to live runs out.
Held(key) ==
    /\ counters[key].count > 0
    /\ clock.now < counters[key].expires_at

\* INCR key: a key Redis does not hold counts from zero; the time to live of
\* a key it holds is kept.
IncrCounter(key) ==
    IF Held(key)
    THEN [counters[key] EXCEPT !.count = @ + 1]
    ELSE [count |-> 1, expires_at |-> NoCounter.expires_at]

\* EXPIRE key window: the time to live starts again.
ExpireCounter(counter, window) ==
    [counter EXCEPT !.expires_at = clock.now + window]

\* The answer (is_allowed, current_count) to a call, with its arguments.
Checked(key, limit, window, is_allowed, current) ==
    [key |-> key, limit |-> limit, window |-> window, at |-> clock.now,
     is_allowed |-> is_allowed, current |-> current]

\* check_rate_limit with Redis connected (lines 130-137): INCR and EXPIRE in
\* one pipeline, then `current <= limit`.
CheckCounted ==
    /\ redis_connected[Api]
    /\ Len(checks) < MaxChecks
    /\ \E key \in RateKeys :
          LET counter ==
                 ExpireCounter(IncrCounter(key), RateWindow)
          IN /\ counters' = [counters EXCEPT ![key] = counter]
             /\ checks' = Append(checks,
                                 Checked(key, RateLimit, RateWindow,
                                         counter.count <= RateLimit,
                                         counter.count))
    /\ UNCHANGED beside_counters

\* check_rate_limit when the pipeline raises (lines 138-140): the call is
\* allowed with count 0; Redis has run the pipeline or has not.
CheckRaises ==
    /\ redis_connected[Api]
    /\ Len(checks) < MaxChecks
    /\ \E key \in RateKeys :
          /\ \/ counters' = counters
             \/ counters' =
                   [counters EXCEPT
                      ![key] = ExpireCounter(IncrCounter(key), RateWindow)]
          /\ checks' = Append(checks,
                              Checked(key, RateLimit, RateWindow, TRUE, 0))
    /\ UNCHANGED beside_counters

\* RedisClient.check_rate_limit(key, limit, window).
RedisClientCheckRateLimit == CheckCounted \/ CheckRaises

----------------------------------------------------------------------------
(* Webhook signatures: WebhookValidator (lib/webhook_security.py) *)

\* Strings are sequences of characters. The secret of the validator and a
\* secret it does not know.
secret_key == << "k" >>
OtherKey == << "x" >>

\* Request bodies.
Payloads == { << "a" >>, << "b" >> }

\* Timestamp headers: none, numbers around the times the clock reaches, and
\* strings that are not numbers or are numbers written unusually.
NoTimestamp == << >>
Timestamps ==
    { NoTimestamp, << "0" >>, << "6", "0" >>, << "6", "1" >>, << "6", "2" >>,
      << "3", "2", "4", "0" >>, << "3", "2", "3", "9" >>,
      << "-", "1" >>, << "+", "6", "0" >>, << " ", "6", "0" >>,
      << "6", "_", "0" >>, << "6", "_" >>, << "6", ".", "0" >>,
      << "a", "b" >>, << " " >>, << "6", " ", "0" >> }

Algorithms == {"sha256", "sha512", "md5"}

\* max_age_seconds (default) and the tolerance for clock skew.
max_age_seconds == 300
FutureTolerance == 60

\* No call yet.
NotValidated == [result |-> "none"]

DigitChars == << "0", "1", "2", "3", "4", "5", "6", "7", "8", "9" >>
IsDigit(c) == \E i \in 1..10 : DigitChars[i] = c
DigitValue(c) == (CHOOSE i \in 1..10 : DigitChars[i] = c) - 1

\* str.strip() of whitespace, as int() does before it parses.
RECURSIVE StripLeft(_)
StripLeft(s) ==
    IF s # << >> /\ Head(s) = " " THEN StripLeft(Tail(s)) ELSE s

RECURSIVE StripRight(_)
StripRight(s) ==
    IF s # << >> /\ s[Len(s)] = " "
    THEN StripRight(SubSeq(s, 1, Len(s) - 1))
    ELSE s

\* A decimal literal int() accepts: digits, with single underscores between
\* digits.
IsDecimal(s) ==
    /\ s # << >>
    /\ IsDigit(s[1]) /\ IsDigit(s[Len(s)])
    /\ \A i \in 1..Len(s) : IsDigit(s[i]) \/ s[i] = "_"
    /\ \A i \in 1..(Len(s) - 1) : ~(s[i] = "_" /\ s[i + 1] = "_")

RECURSIVE LiteralValue(_, _)
LiteralValue(s, acc) ==
    IF s = << >> THEN acc
    ELSE IF Head(s) = "_" THEN LiteralValue(Tail(s), acc)
    ELSE LiteralValue(Tail(s), 10 * acc + DigitValue(Head(s)))

\* int(timestamp): the number, or ValueError.
ParseInt(timestamp) ==
    LET stripped == StripRight(StripLeft(timestamp))
        signed == stripped # << >> /\ Head(stripped) \in {"+", "-"}
        digits == IF signed THEN Tail(stripped) ELSE stripped
    IN IF ~IsDecimal(digits) THEN [ok |-> FALSE, value |-> 0]
       ELSE [ok |-> TRUE,
             value |-> IF signed /\ Head(stripped) = "-"
                       THEN 0 - LiteralValue(digits, 0)
                       ELSE LiteralValue(digits, 0)]

\* HMAC of a message under a key: equal digests for equal keys, messages
\* and algorithms only.
Hmac(key, message, algorithm) ==
    [key |-> key, message |-> message, algorithm |-> algorithm]

\* f"{timestamp}.{payload.decode()}" when a timestamp is given, else the
\* payload (lines 43-46).
SignedPayload(payload, timestamp) ==
    IF timestamp # << >> THEN timestamp \o << "." >> \o payload ELSE payload

\* compute_signature (lines 25-64): the digest, or ValueError for an
\* algorithm that is not supported.
compute_signature(payload, timestamp, algorithm) ==
    IF algorithm \in {"sha256", "sha512"}
    THEN [raised |-> FALSE,
          signature |->
             Hmac(secret_key, SignedPayload(payload, timestamp), algorithm)]
    ELSE [raised |-> TRUE, signature |-> << >>]

\* A staleness test with its operands exchanged.
TooOldExchanged(current_time, timestamp_int, max_age) ==
    timestamp_int - current_time > max_age

\* `if current_time - timestamp_int > max_age_seconds:` (line 94).
TooOld(current_time, timestamp_int, max_age) ==
    current_time - timestamp_int > max_age

\* `if timestamp_int - current_time > 60:` (line 98).
FromTheFuture(current_time, timestamp_int) ==
    timestamp_int - current_time > FutureTolerance

\* validate_signature with all its arguments (lines 66-108): "True",
\* "False" or "raised".
ValidateSignature(payload, signature, timestamp, algorithm, max_age) ==
    LET parsed == ParseInt(timestamp)
        current_time == clock.now
        expected == compute_signature(payload, timestamp, algorithm)
    IN IF /\ timestamp # << >>
          /\ \/ ~parsed.ok
             \/ TooOld(current_time, parsed.value, max_age)
             \/ FromTheFuture(current_time, parsed.value)
       THEN "False"
       ELSE IF expected.raised THEN "raised"
       ELSE IF signature = expected.signature THEN "True"
       ELSE "False"

\* The signatures a sender may present for a body and a timestamp.
Signatures(payload, timestamp) ==
    { Hmac(key, message, algorithm) :
        key \in {secret_key, OtherKey},
        message \in {SignedPayload(payload, timestamp), payload},
        algorithm \in {"sha256", "sha512"} }

\* What a call of validate_signature leaves alone.
beside_validation == << service_vars, limiter_vars, counter_vars,
                        history_vars >>

\* A call of validate_signature, once in a behaviour.
Validate ==
    /\ validation = NotValidated
    /\ \E payload \in Payloads, timestamp \in Timestamps,
          algorithm \in Algorithms :
          \E signature \in Signatures(payload, timestamp) :
             validation' =
                [payload |-> payload, signature |-> signature,
                 timestamp |-> timestamp, algorithm |-> algorithm,
                 at |-> clock.now,
                 result |-> ValidateSignature(payload, signature, timestamp,
                                              algorithm, max_age_seconds)]
    /\ UNCHANGED beside_validation

----------------------------------------------------------------------------
(* The event history of ConnectionManager (lib/websocket_manager.py) *)

\* The events that are broadcast.
Events == {"click", "conversion", "client_disconnected"}

\* max_history_size of the manager.
max_history_size == 3
\* Number of broadcasts in one behaviour.
MaxBroadcasts == 6

\* What a broadcast leaves alone.
beside_history == << service_vars, limiter_vars, counter_vars, validation >>

\* The manager after __init__.
HistoryIdle ==
    /\ event_history = << >>
    /\ broadcasts = << >>

\* list[-n:] for a positive n.
LastOf(list, n) ==
    IF Len(list) <= n THEN list ELSE SubSeq(list, Len(list) - n + 1, Len(list))

\* A history that is cut to its oldest events.
AddToHistoryKeepingOldest(history, event) ==
    LET appended == Append(history, event)
    IN IF Len(appended) > max_history_size
       THEN SubSeq(appended, 1, max_history_size)
       ELSE appended

\* _add_to_history (lines 111-116).
AddToHistory(history, event) ==
    LET appended == Append(history, event)
    IN IF Len(appended) > max_history_size
       THEN LastOf(appended, max_history_size)
       ELSE appended

\* broadcast (lines 86-93): the event enters the history before it is sent.
Broadcast ==
    /\ Len(broadcasts) < MaxBroadcasts
    /\ \E event \in Events :
          /\ event_history' = AddToHistory(event_history, event)
          /\ broadcasts' = Append(broadcasts, event)
    /\ UNCHANGED beside_history

\* No component of lib/ has been used.
LibraryIdle ==
    /\ LimiterIdle
    /\ CountersIdle
    /\ validation = NotValidated
    /\ HistoryIdle

----------------------------------------------------------------------------
\* The tracking_links table with the links of `active` active and every
\* counter at its default.
LinksTable(active) ==
    [l \in Links |-> [is_active |-> l \in active, total_clicks |-> 0,
                      total_conversions |-> 0, total_revenue |-> 0]]

\* No redirect request has arrived; Redis is connected and holds nothing.
RedirectsIdle ==
    /\ core_links = [l \in Links |-> [active |-> TRUE]]
    /\ clicks = {}
    /\ redis_connected = [a \in {Api, CoreApi} |-> TRUE]
    /\ cache = CacheHolding({})
    /\ ip_clicks = [k \in {VelocityKey(ClientIp)} |-> NoKey]
    /\ link_stats = [s \in Slugs |-> 0]
    /\ rd = [r \in Reqs |-> IdleRd]

\* No webhook has arrived.
WebhooksIdle ==
    /\ webhook_events = {}
    /\ conversions = {}
    /\ commissions = {}
    /\ attributions = {}
    /\ req = [r \in Reqs |-> IdleReq]
    /\ calls = [c \in Calls |-> IdleCall]
    /\ fails = 0

Init ==
    /\ production \in BOOLEAN
    /\ shopify_secret \in BOOLEAN
    /\ WebhooksIdle
    /\ tracking_links = LinksTable(Links)
    /\ RedirectsIdle
    /\ cm = IdleCm
    /\ CreationIdle
    /\ pw = StartupDone
    /\ LibraryIdle

\* The two webhook endpoints serving concurrent requests.
Next ==
    \E r \in Reqs : handle_refersion_webhook(r) \/ shopify_webhook(r)

Spec == Init /\ [][Next]_vars

\* Concurrent callers of the function alone.
NextFn ==
    \E c \in Calls : process_webhook_idempotently(c)

SpecFn == Init /\ [][NextFn]_vars

\* The redirect endpoints start with some links deactivated in the store,
\* Redis connected or not and, when it is, the descriptors of some links
\* cached less than a TTL ago and the velocity counter of the client
\* anywhere up to the limit, with the expiry of its window.
InitRd ==
    /\ production = FALSE
    /\ shopify_secret = FALSE
    /\ WebhooksIdle
    /\ \E active \in SUBSET Links :
          /\ tracking_links = LinksTable(active)
          /\ core_links = [l \in Links |-> [active |-> l \in active]]
    /\ clicks = {}
    /\ \E connected \in BOOLEAN :
          /\ redis_connected = [a \in {Api, CoreApi} |-> connected]
          /\ \E cached \in (IF connected THEN SUBSET Links ELSE {{}}) :
                cache = CacheHolding(cached)
          /\ \E count \in (IF connected
                            THEN {0, RATE_LIMIT_CLICKS - 1, RATE_LIMIT_CLICKS}
                            ELSE {0}) :
                ip_clicks = [k \in {VelocityKey(ClientIp)} |->
                                [count |-> count, expires |-> count > 0]]
    /\ link_stats = [s \in Slugs |-> 0]
    /\ rd = [r \in Reqs |-> IdleRd]
    /\ cm = IdleCm
    /\ CreationIdle
    /\ pw = StartupDone
    /\ LibraryIdle

\* Redis deletes a key whose expiry has passed.
KeyExpires ==
    /\ \E i \in DOMAIN ip_clicks :
          /\ ip_clicks[i].expires
          /\ ip_clicks' = [ip_clicks EXCEPT ![i] = NoKey]
    /\ UNCHANGED << webhook_vars, tracking_links, fails, core_links, clicks,
                    redis_connected, cache, link_stats, rd >>

\* The three redirect endpoints serving concurrent requests, and the
\* passing of time in Redis.
NextRd ==
    \/ \E r \in Reqs :
          redirect_slug(r) \/ handle_redirect(r) \/ redirect_link(r)
    \/ KeyExpires

SpecRd == InitRd /\ [][NextRd]_vars

\* One commission computation, of either application, on a payload and a
\* program.
InitCm ==
    /\ production = FALSE
    /\ shopify_secret = FALSE
    /\ WebhooksIdle
    /\ tracking_links = LinksTable(Links)
    /\ RedirectsIdle
    /\ cm \in CmInputs
    /\ CreationIdle
    /\ pw = StartupDone
    /\ LibraryIdle

NextCm ==
    \/ RefersionCommission
    \/ RefersionInsert
    \/ CoreGross
    \/ CoreFee
    \/ CoreInsert

SpecCm == InitCm /\ [][NextCm]_vars

\* Link creation starts with some links of the store deactivated.
InitLk ==
    /\ production = FALSE
    /\ shopify_secret = FALSE
    /\ WebhooksIdle
    /\ \E active \in SUBSET Links :
          /\ tracking_links = LinksTable(active)
          /\ core_links = [l \in Links |-> [active |-> l \in active]]
    /\ clicks = {}
    /\ redis_connected = [a \in {Api, CoreApi} |-> TRUE]
    /\ cache = CacheHolding({})
    /\ ip_clicks = [k \in {VelocityKey(ClientIp)} |-> NoKey]
    /\ link_stats = [s \in Slugs |-> 0]
    /\ rd = [r \in Reqs |-> IdleRd]
    /\ cm = IdleCm
    /\ new_links = {}
    /\ link_cache = {}
    /\ lk = [r \in Reqs |-> IdleLk]
    /\ pw = StartupDone
    /\ LibraryIdle

NextLk ==
    \E r \in Reqs : create_tracking_link(r) \/ create_link(r) \/ LkStoreFails(r)

SpecLk == InitLk /\ [][NextLk]_vars

\* The api application starts with its links active and, in Redis, either
\* nothing or the descriptors that link creation cached less than a TTL
\* ago; then it serves its two redirect endpoints while time passes and
\* links are deactivated.
InitSt ==
    /\ production = FALSE
    /\ shopify_secret = FALSE
    /\ WebhooksIdle
    /\ tracking_links = LinksTable(Links)
    /\ core_links = [l \in Links |-> [active |-> TRUE]]
    /\ clicks = {}
    /\ redis_connected = [a \in {Api, CoreApi} |-> TRUE]
    /\ \E cached \in {{}, Links} :
          cache = [k \in CacheKeys |->
                      IF k[1] = Api /\ k[2] = "link:"
                      THEN CacheHolding(cached)[k] ELSE NoneValue]
    /\ ip_clicks = [k \in {VelocityKey(ClientIp)} |-> NoKey]
    /\ link_stats = [s \in Slugs |-> 0]
    /\ rd = [r \in Reqs |-> IdleRd]
    /\ cm = IdleCm
    /\ CreationIdle
    /\ pw = StartupIdle
    /\ LibraryIdle

NextSt ==
    \/ prewarm_cache
    \/ CacheExpires
    \/ Deactivate
    \/ \E r \in Reqs : redirect_slug(r) \/ handle_redirect(r)

SpecSt == InitSt /\ [][NextSt]_vars

\* The middleware serving requests of its clients while time passes.
NextRl ==
    \/ CallSkipped
    \/ CallLimited
    \/ CleanupOldEntries
    \/ Tick

\* A configured production deployment with an idle limiter.
InitRl == Init /\ production /\ shopify_secret

SpecRl == InitRl /\ [][NextRl]_vars

\* Callers of check_rate_limit while time passes.
NextCk ==
    \/ RedisClientCheckRateLimit
    \/ Tick

SpecCk == InitRl /\ [][NextCk]_vars

\* Senders of signed webhooks while time passes.
NextVs ==
    \/ Validate
    \/ Tick

SpecVs == InitRl /\ [][NextVs]_vars

\* The manager broadcasting events.
NextWs == Broadcast

SpecWs == InitRl /\ [][NextWs]_vars
----------------------------------------------------------------------------
(* Properties of process_webhook_idempotently (SpecFn) *)

Returned(c) == calls[c].pc = "returned"

ReturnedFor(source, eid) ==
    { c \in Calls : Returned(c) /\ calls[c].source = source
                                /\ calls[c].eid = eid }

RowsFor(source, eid) ==
    { row \in webhook_events : row.source = source
                               /\ row.external_event_id = eid }

\* C1: for any (source, external_event_id), however the calls with that
\* pair interleave, at most one webhook_events row of the pair exists; once
\* a call has returned exactly one row exists, exactly one returned call has
\* is_duplicate = false, every other returned call has is_duplicate = true,
\* and all of them return the id of that row.
C1_ExactlyOneRowPerEvent ==
    \A source \in Sources, eid \in EventIds :
        LET cs == ReturnedFor(source, eid)
            rows == RowsFor(source, eid)
        IN /\ Cardinality(rows) <= 1
           /\ cs # {} =>
                /\ Cardinality(rows) = 1
                /\ Cardinality({ c \in cs : ~calls[c].result.is_duplicate }) = 1
                /\ \A c \in cs, row \in rows :
                      calls[c].result.webhook_event_id = row.id

\* Three calls with the same pair have returned: one new, two duplicates.
C1_Witness ==
    \E source \in Sources, eid \in EventIds :
        /\ Cardinality(ReturnedFor(source, eid)) >= 3
        /\ Cardinality({ c \in ReturnedFor(source, eid) :
                            calls[c].result.is_duplicate }) >= 2

\* C7: calls whose keys differ in source or in external_event_id do not
\* collide: returned calls with different keys return different
\* webhook_event_ids, a call returns is_duplicate = true only when another
\* call with the same key inserted the row, and the table holds exactly one
\* row per distinct key that was inserted.
C7_DistinctKeysDoNotCollide ==
    /\ \A c, d \in Calls :
          /\ Returned(c) /\ Returned(d)
          /\ << calls[c].source, calls[c].eid >> #
                << calls[d].source, calls[d].eid >>
          => calls[c].result.webhook_event_id # calls[d].result.webhook_event_id
    /\ \A c \in Calls :
          Returned(c) /\ calls[c].result.is_duplicate =>
             \E d \in Calls \ {c} :
                /\ Returned(d) /\ ~calls[d].result.is_duplicate
                /\ calls[d].source = calls[c].source
                /\ calls[d].eid = calls[c].eid
    /\ Cardinality(webhook_events) =
          Cardinality({ << calls[c].source, calls[c].eid >> :
                           c \in { d \in Calls : Returned(d) } })

\* The same external_event_id under two sources: two new rows, and a third
\* call with another event id.
C7_Witness ==
    \E c, d, e \in Calls :
        /\ Returned(c) /\ Returned(d) /\ Returned(e)
        /\ calls[c].eid = calls[d].eid /\ calls[c].source # calls[d].source
        /\ calls[e].eid # calls[c].eid
        /\ ~calls[c].result.is_duplicate /\ ~calls[d].result.is_duplicate
        /\ ~calls[e].result.is_duplicate
        /\ Cardinality(webhook_events) = 3

----------------------------------------------------------------------------
(* Properties of the webhook handlers (Spec) *)

ConversionsOf(db, order) ==
    { c \in conversions : c.db = db /\ c.order_id = order }

CommissionsOf(db, order) ==
    { m \in commissions :
         \E c \in ConversionsOf(db, order) : m.conversion_id = c.id }

\* The application that serves the request.
DbOf(r) == IF req[r].kind = "refersion" THEN Api ELSE CoreApi

\* The request has recorded the webhook event as new.
OwnsEvent(r) ==
    /\ req[r].kind = "refersion"
    /\ req[r].result.webhook_event_id # Null
    /\ ~req[r].result.is_duplicate

\* C2: for any order_id at most one conversions row and at most one
\* commissions row exist in a store, whatever events carried the order.
C2_OneConversionPerOrder ==
    \A db \in {Api, CoreApi}, order \in Orders :
        /\ Cardinality(ConversionsOf(db, order)) <= 1
        /\ Cardinality(CommissionsOf(db, order)) <= 1

\* Two distinct events with the same order were both processed as new: one
\* holds the conversion and its commission, the other hit the order_id
\* constraint.
C2_Witness ==
    \E r, q \in Reqs :
        /\ r # q /\ Done(r) /\ Done(q)
        /\ OwnsEvent(r) /\ OwnsEvent(q)
        /\ req[r].eid # req[q].eid /\ req[r].order = req[q].order
        /\ \E c \in conversions : c.id = r
        /\ \E m \in commissions : m.conversion_id = r
        /\ req[q].err = "unique"

\* C3: a step of a request whose idempotency check reported a duplicate
\* leaves conversions, commissions and the counters of every tracking link
\* unchanged, and every conversion of the refersion handler was created by a
\* request whose check reported is_duplicate = false.
C3_DuplicateChangesNothing ==
    /\ [](\A c \in conversions :
             c.db = Api => ~req[c.id].result.is_duplicate)
    /\ [][\A r \in Reqs :
             req[r].result.is_duplicate /\ req'[r] # req[r] =>
                /\ conversions' = conversions
                /\ commissions' = commissions
                /\ tracking_links' = tracking_links]_vars

\* A duplicate was answered 202 after the first delivery created the
\* conversion.
C3_Witness ==
    \E r, q \in Reqs :
        /\ Done(q) /\ req[q].result.is_duplicate /\ req[q].status = 202
        /\ OwnsEvent(r) /\ req[q].result.webhook_event_id =
                              req[r].result.webhook_event_id
        /\ \E c \in conversions : c.id = r

\* The event of the payload resolves to a tracking link.
RefersionMatches(sub) ==
    \E l \in Links : LinkSlug(l) = sub[1] \/ LinkIdText(l) = sub[2]

\* The sub-identifier of a Shopify payload resolves to no tracking link.
ShopifyUnmatched(sub) ==
    \/ Len(sub) < 2
    \/ \A l \in Links : LinkSlug(l) # sub[2]

\* The sub-identifier of the request resolves to a tracking link.
EventMatches(r) ==
    \/ req[r].kind = "refersion" /\ RefersionMatches(req[r].sub)
    \/ req[r].kind = "shopify" /\ ~ShopifyUnmatched(req[r].sub)

\* C4: for every event that was handled and resolves to a tracking link,
\* the conversion, its commission, the backref on the webhook event and the
\* counters of the link are all present or all absent, also after a failure
\* at any step: no conversion without its commission, no commission without
\* its conversion.
C4_AllOrNothing ==
    /\ \A r \in Reqs :
          Done(r) /\ EventMatches(r) =>
             LET conv == \E c \in conversions : c.id = r
                 comm == \E m \in commissions : m.conversion_id = r
             IN /\ conv <=> comm
                /\ req[r].kind = "refersion" =>
                      (conv <=> \E row \in webhook_events :
                                   row.conversion_id = r)
    /\ \A l \in Links :
          tracking_links[l].total_conversions =
             Cardinality({ c \in conversions : c.tracking_link_id = l })

\* C29: when the handling of a new webhook raised after its webhook_events
\* row was recorded, the row carries status_code 500 and the message of the
\* error once the request is answered 500.
C29_FailureRecordedOnEvent ==
    \A r \in Reqs :
        OwnsEvent(r) /\ Done(r) /\ req[r].status = 500 =>
           \A row \in webhook_events :
               row.id = req[r].result.webhook_event_id =>
                  row.status_code = 500 /\ row.error_message = req[r].err

\* C32: a broadcast that fails (a client send error, or connections added
\* or removed while broadcast iterates over them) never makes the webhook
\* handler answer with an error or roll back the conversion and the
\* commission it created.
C32_BroadcastFailureHarmless ==
    \A r \in Reqs :
        Done(r) /\ req[r].err = "broadcast" =>
           /\ req[r].status \in {200, 202}
           /\ OwnsEvent(r) /\ RefersionMatches(req[r].sub) =>
                 /\ \E c \in conversions : c.id = r
                 /\ \E m \in commissions : m.conversion_id = r

\* C5: when the request that recorded an event was answered 500 after a
\* store error, a redelivery of the same event that arrives afterwards and
\* is answered without error leaves the conversion and the commission of
\* the event in the store.
C5_RedeliveryCreatesConversion ==
    \A r, q \in Reqs :
        /\ OwnsEvent(r) /\ Done(r)
        /\ req[r].status = 500 /\ req[r].err = "store"
        /\ RefersionMatches(req[r].sub)
        /\ req[q].kind = "refersion" /\ r \in req[q].after
        /\ req[q].eid = req[r].eid /\ req[q].order = req[r].order
        /\ req[q].sub = req[r].sub
        /\ Done(q) /\ req[q].status \in {200, 202}
        => /\ ConversionsOf(Api, req[r].order) # {}
           /\ CommissionsOf(Api, req[r].order) # {}

\* The request went past the checks that make it a new event.
NewEvent(r) ==
    \/ OwnsEvent(r)
    \/ req[r].kind = "shopify" /\ req[r].pc # "idle"
                               /\ req[r].order # NoOrder
                               /\ req[r].reply # "duplicate"
                               /\ req[r].status \notin {401, 400}
                               /\ req[r].sig \in {"valid", "invalid"}

\* C6: a new event that arrives when its order_id already has a conversion
\* (of a request answered before) creates no second conversion or
\* commission and is not answered with an error.
C6_ExistingOrderIsNoError ==
    \A r \in Reqs :
        /\ Done(r) /\ NewEvent(r)
        /\ req[r].err \notin {"store", "broadcast", "cache"}
        /\ \E c \in ConversionsOf(DbOf(r), req[r].order) :
              c.id \in req[r].after
        => /\ req[r].status < 400
           /\ ~\E c \in conversions : c.id = r
           /\ ~\E m \in commissions : m.id = r

\* C8: a request whose processing hit a store error is answered 500, never
\* 200 or 202.
C8_StoreErrorIs500 ==
    \A r \in Reqs :
        req[r].err = "store" =>
           Done(r) /\ req[r].status = 500 /\ req[r].reply = ""

\* The store failed during attribution, after the event was recorded.
C8_Witness ==
    \E r \in Reqs :
        /\ OwnsEvent(r) /\ req[r].link # Null
        /\ req[r].err = "store" /\ req[r].status = 500

\* A new event was handled without error and its sub-identifier resolves to
\* no tracking link.
UnmatchedHandled(r) ==
    /\ Done(r) /\ NewEvent(r) /\ req[r].err = "none"
    /\ \/ req[r].kind = "refersion" /\ ~RefersionMatches(req[r].sub)
       \/ req[r].kind = "shopify" /\ ShopifyUnmatched(req[r].sub)

NoRowsBy(r) ==
    /\ req[r].result = NoResult
    /\ ~\E c \in conversions : c.id = r
    /\ ~\E m \in commissions : m.id = r
    /\ ~\E a \in attributions : a.id = r

ValidationEnabled(r) ==
    \/ req[r].kind = "refersion" /\ production
    \/ req[r].kind = "shopify" /\ shopify_secret

----------------------------------------------------------------------------
(* The answer to a duplicate delivery (Spec) *)

\* The request recorded its event and was answered 200 with a conversion.
OwnerSucceeded(r) ==
    /\ OwnsEvent(r) /\ Done(r) /\ req[r].status = 200
    /\ \E c \in conversions : c.db = Api /\ c.id = r

\* A delivery of the event of r that arrived after r was answered and has
\* the result of its idempotency check.
LaterDuplicateOf(r) ==
    { q \in Reqs : /\ req[q].kind = "refersion" /\ r \in req[q].after
                   /\ req[q].eid = req[r].eid
                   /\ req[q].pc \in {"dup_respond", "done"}
                   /\ req[q].result.is_duplicate }

\* C31: after the delivery that recorded an event was answered with a
\* conversion, the webhook_events row of the event carries the id of that
\* conversion, and every duplicate delivery of the event that arrives later
\* returns that same conversion_id.
C31_DuplicateReturnsConversion ==
    \A r \in Reqs :
        OwnerSucceeded(r) =>
           /\ \E row \in webhook_events :
                 /\ row.id = req[r].result.webhook_event_id
                 /\ row.conversion_id = r
           /\ \A q \in LaterDuplicateOf(r) :
                 /\ req[q].result.webhook_event_id =
                       req[r].result.webhook_event_id
                 /\ req[q].result.conversion_id = r

\* A duplicate that arrived after the conversion was answered 202.
C31_Witness ==
    \E r \in Reqs :
        /\ OwnerSucceeded(r)
        /\ \E q \in LaterDuplicateOf(r) :
              /\ Done(q) /\ req[q].status = 202
              /\ req[q].result.conversion_id = r

\* Another request recorded the (source, event_id) pair of the request.
RecordedByOther(r) ==
    \E q \in Reqs \ {r} : OwnsEvent(q) /\ req[q].eid = req[r].eid

----------------------------------------------------------------------------
(* Properties of the redirect endpoints (SpecRd) *)

\* The application that serves the redirect request.
RdApp(r) == IF rd[r].kind = "redirect_link" THEN CoreApi ELSE Api

\* The active links of the request's slug in the store of its application.
StoreActive(r) ==
    IF rd[r].kind = "redirect_link" THEN CoreActiveLinks(rd[r].slug)
    ELSE ActiveLinks(rd[r].slug)

\* The request resolved its slug to a link.
Resolved(r) == rd[r].lid # Null

\* The click rows the request inserted.
ClicksOf(r) == { c \in clicks : c.db = RdApp(r) /\ c.id = r }

\* C12: when a resolution of a slug went to the store after a cache miss
\* and was answered, a later resolution of the same slug by the same
\* endpoint, with Redis connected and no failure, is served from the cache
\* without a store query for the link and answers the identical destination.
C12_SecondResolutionFromCache ==
    \A q, r \in Reqs :
        /\ RdDone(q) /\ rd[q].queried /\ rd[q].status = 302
        /\ rd[r].kind = rd[q].kind /\ rd[r].slug = rd[q].slug
        /\ q \in rd[r].after /\ RdDone(r)
        /\ redis_connected[RdApp(r)] /\ fails = 0
        => /\ rd[r].hit /\ ~rd[r].queried
           /\ rd[r].status = 302 /\ rd[r].location = rd[q].location

\* C13: a request whose slug has no active link in the store is answered
\* 404, is not redirected to a destination and records no click.
C13_InactiveOrUnknownIs404 ==
    \A r \in Reqs :
        RdDone(r) /\ rd[r].err = "none" /\ StoreActive(r) = {} =>
           /\ rd[r].status = 404
           /\ rd[r].location = ""
           /\ ClicksOf(r) = {}

UrlSafe(url) == url # "https://m2.example/new in?ref=s2"

C15_CacheFailureNotPropagated ==
    \A r \in Reqs :
        /\ RdDone(r)
        /\ rd[r].err = "cache" \/ (rd[r].err = "none"
                                   /\ ~redis_connected[RdApp(r)])
        => /\ rd[r].status # 500
           /\ \A l \in StoreActive(r) :
                 /\ rd[r].status = 302
                 /\ rd[r].location = Location(LinkDest(l))

\* C16: a redirect request is answered 302 or 404 only.
C16_Only302Or404 ==
    \A r \in Reqs : RdDone(r) => rd[r].status \in {302, 404}

\* C17: a request whose click insert or total_clicks update raised is still
\* answered 302 to the destination of its link.
C17_ClickFailureKeepsRedirect ==
    \A r \in Reqs :
        RdDone(r) /\ rd[r].err = "click" =>
           /\ rd[r].status = 302
           /\ rd[r].location = Location(LinkDest(rd[r].lid))

\* The handler is at a write of the click (the insert, the counter update)
\* that it awaits.
AwaitsClickWrite(r) ==
    rd[r].pc \in {"rs_click", "hr_click", "hr_update", "cr_insert"}

\* C18: the response does not wait for the click write: no request that is
\* still unanswered is held at a click write.
C18_ResponseDoesNotWaitForClick ==
    \A r \in Reqs : AwaitsClickWrite(r) => rd[r].status = 302

\* The redirects of the api package that were answered 302 to link l.
RedirectsTo(l) ==
    { r \in Reqs : /\ rd[r].kind \in {"redirect_slug", "handle_redirect"}
                   /\ RdDone(r) /\ rd[r].status = 302 /\ rd[r].lid = l }

\* C19: once the requests are answered, and none met a failure, the
\* total_clicks of each link has grown by the number of successful redirects
\* to it.
C19_TotalClicksCountsRedirects ==
    (fails = 0 /\ \A r \in Reqs : rd[r].pc \in {"idle", "done"}) =>
       \A l \in Links :
          tracking_links[l].total_clicks = Cardinality(RedirectsTo(l))

C21_CounterKeyCarriesExpiry ==
    (\A r \in Reqs : rd[r].pc # "cr_expire") =>
       \A i \in DOMAIN ip_clicks :
          ip_clicks[i].count > 0 => ip_clicks[i].expires

\* The sum of the order amounts of a set of conversions.
RECURSIVE Revenue(_)
Revenue(rows) ==
    IF rows = {} THEN 0
    ELSE LET c == CHOOSE x \in rows : TRUE
         IN c.order_amount + Revenue(rows \ {c})

\* The conversions of the store of tracking_links that belong to a link.
LinkConversions(l) ==
    { c \in conversions : c.db = Api /\ c.tracking_link_id = l }

\* C24: in every reachable state the total_conversions of each tracking
\* link is the number of conversions rows the webhook handler created for
\* the link and its total_revenue is the sum of their order amounts; the
\* counters change in the same transaction as the conversion insert.
C24_LinkTotalsMatchConversions ==
    \A l \in Links :
        /\ tracking_links[l].total_conversions = Cardinality(LinkConversions(l))
        /\ tracking_links[l].total_revenue = Revenue(LinkConversions(l))

\* A link holds two conversions of different order amounts.
C24_Witness ==
    \E l \in Links :
        /\ Cardinality(LinkConversions(l)) = 2
        /\ \E c, d \in LinkConversions(l) : c.order_amount # d.order_amount
        /\ tracking_links[l].total_revenue = Revenue(LinkConversions(l))

\* C25: every 302 answer that redirects to the destination of a link carries
\* the attribution cookie: named after the influencer of the link, its value
\* the slug, its max-age the cookie window of the program in seconds,
\* httpOnly and SameSite=Lax.
C25_RedirectCarriesAttributionCookie ==
    \A r \in Reqs :
        RdDone(r) /\ Resolved(r) /\ rd[r].status = 302 =>
           \E c \in ResponseCookies(r) :
               /\ c.key = AttributionCookie(rd[r].lid, rd[r].slug).key
               /\ c.value = rd[r].slug
               /\ c.max_age = AttributionCookie(rd[r].lid, rd[r].slug).max_age
               /\ c.httponly /\ c.samesite = "lax"

\* C27: exactly one click row is created per redirect request that resolves
\* to a link: once such a request is answered, the store holds one click of
\* it; and no step modifies or deletes a click row that exists.
C27_OneClickPerResolvedRedirect ==
    /\ [](\A r \in Reqs :
             RdDone(r) /\ Resolved(r) => Cardinality(ClicksOf(r)) = 1)
    /\ [][clicks \subseteq clicks']_vars

\* A text, given as the sequence of its parts, holds the client IP.
HoldsIp(text) == \E i \in DOMAIN text : text[i] = ClientIp

\* The digest is of the IP together with a salt.
SaltedIpHash(h) ==
    /\ h.alg = "sha256"
    /\ HoldsIp(h.input)
    /\ \E i \in DOMAIN h.input : h.input[i] # ClientIp

\* C28: no click row and no cache entry written while a click is recorded
\* holds the client IP in plaintext: what a click row keeps of the IP is a
\* salted hash, and no step writes a Redis key named after the IP.
C28_NoPlaintextIp ==
    /\ [](\A c \in clicks : c.ip_hash # NoHash => SaltedIpHash(c.ip_hash))
    /\ [][\A k \in DOMAIN ip_clicks :
             ip_clicks'[k].count > ip_clicks[k].count => ~HoldsIp(k)]_vars

\* C30: every store connection that the GET /r/{slug} handler acquired is
\* back in the pool on every path, also when the click insert raised: once
\* its requests are answered, the pool has as many free connections as
\* before them.
C30_ConnectionsReleased ==
    (\A r \in Reqs :
         rd[r].kind = "redirect_slug" => RdDone(r)) => PoolFree = max_size
----------------------------------------------------------------------------
(* Properties of the life of a cached descriptor (SpecSt) *)

\* The links of the slug that are deactivated in the store.
Deactivated(slug) ==
    { l \in Links : LinkSlug(l) = slug /\ ~tracking_links[l].is_active }

\* The request found neither a cached descriptor nor an active row.
ResolvedNothing(r) ==
    /\ RdDone(r) /\ rd[r].status # 500
    /\ ~rd[r].hit /\ ~rd[r].queried

\* C33: the staleness of the cache is bounded by the TTL: no step writes a
\* descriptor under the slug of a link that is deactivated in the store, so
\* the slug resolves from the cache only until the entries written before
\* the deactivation expire; and a resolution that finds no entry and no
\* active row for the slug of a deactivated link is answered 404.
C33_StalenessBoundedByTtl ==
    /\ [](\A r \in Reqs :
             ResolvedNothing(r) /\ Deactivated(rd[r].slug) # {} =>
                rd[r].status = 404)
    /\ [][\A k \in CacheKeys :
             cache'[k] # cache[k] /\ cache'[k] # NoneValue =>
                Deactivated(k[3]) = {}]_vars

----------------------------------------------------------------------------
(* Properties of link creation (SpecLk) *)

\* C26: no two tracking links of a store ever share a slug: of concurrent
\* creation requests that chose the same slug, generated or custom, at most
\* one stored its link, and no new link has the slug of a link of the
\* store, deactivated or not.
C26_SlugNeverShared ==
    /\ \A a, b \in new_links :
          a.db = b.db /\ a.slug = b.slug => a = b
    /\ \A row \in new_links, l \in Links : row.slug # LinkSlug(l)

\* With every link of the store deactivated, two concurrent requests chose
\* the same new slug after one of them had drawn the slug of a deactivated
\* link: one link is stored, the other insert met the constraint.
C26_Witness ==
    /\ \A l \in Links : ~tracking_links[l].is_active
    /\ \E r, q \in Reqs :
          /\ r # q /\ lk[r].kind = lk[q].kind
          /\ LkDone(r) /\ LkDone(q)
          /\ lk[r].slug = lk[q].slug
          /\ lk[r].status = 200
          /\ lk[q].err = "unique" /\ lk[q].attempts > 0
          /\ \E row \in new_links : row.id = r /\ row.slug = lk[r].slug
----------------------------------------------------------------------------
(* Properties of the commission computation (SpecCm) *)

\* The amount in whole units of 10^-places of the currency unit (places
\* at most MoneyScale), halves rounded up: the whole part of
\* (2 * x + unit) / (2 * unit).
RoundedTo(places, x) ==
    LET unit == Pow10(MoneyScale - places)
        twice == AddNat(MulSmall(x.m, 2), ShiftLeft(NatLimbs(unit), -x.e))
    IN DivSmall(ShiftRight(twice, -x.e), 2 * unit).q

Cents(v) == RoundedTo(2, Exact(v))

\* C22: of every commission stored, the platform_fee computed is exactly
\* 0.20 x gross and the net_amount exactly gross - platform_fee, as decimal
\* arithmetic gives them, and the stored platform_fee and net_amount add up
\* to the stored gross to the cent.
C22_ExactDecimalFeeAndNet ==
    cm.pc = "stored" =>
       /\ ExactEqual(ExactTimes(Exact(cm.platform_fee), 100),
                     ExactTimes(Exact(cm.gross), 20))
       /\ ExactEqual(ExactPlus(Exact(cm.platform_fee), Exact(cm.net_amount)),
                     Exact(cm.gross))
       /\ AddNat(Cents(cm.row.platform_fee), Cents(cm.row.net_amount)) =
             Cents(cm.row.amount)

\* commission_rate of the api schema is a percentage, commission_value of
\* a percent-type program of core_api a fraction.
RateAsFraction(c) ==
    IF c.handler = "refersion" THEN Dec(c.commission_value.coef, 2)
    ELSE c.commission_value

\* C23: the gross commission is order_subtotal x commission_rate for a
\* percent-type program and commission_value for a fixed-type program (up
\* to the representation error of a float, far below 10^-5).
C23_GrossFromProgram ==
    cm.gross.t # "unset" =>
       RoundedTo(MoneyScale, Exact(cm.gross)) =
          RoundedTo(MoneyScale,
                    ExactOfDec(IF cm.commission_type = "percent"
                               THEN DecMul(cm.subtotal, RateAsFraction(cm))
                               ELSE cm.commission_value))

----------------------------------------------------------------------------
(* Properties of the rate-limiting middleware (SpecRl) *)

\* The requests the limiter was asked about.
Limited == { i \in 1..Len(answered) : answered[i].checked }

\* The requests it let through.
LetThrough == { i \in Limited : answered[i].downstream }

\* The requests of the client of request i that were let through before it,
\* in the `window` seconds preceding it.
LetThroughBefore(i, window) ==
    { j \in LetThrough :
        /\ j < i
        /\ answered[j].client = answered[i].client
        /\ answered[j].at > answered[i].at - window }

\* C34: the limiter lets a request through exactly when fewer than
\* requests_per_minute requests of the same client were let through in the
\* 60 seconds before it and fewer than requests_per_hour in the 3600 seconds
\* before it (a request exactly 60 or 3600 seconds old has left the window);
\* hence the requests of one client let through in the 60 seconds that end
\* with any of them number at most requests_per_minute.
C34_SlidingWindowQuota ==
    \A i \in Limited :
        /\ i \in LetThrough <=>
              /\ Cardinality(LetThroughBefore(i, MinuteWindow))
                    < requests_per_minute
              /\ Cardinality(LetThroughBefore(i, HourWindow))
                    < requests_per_hour
        /\ i \in LetThrough =>
              Cardinality(LetThroughBefore(i, MinuteWindow) \cup {i})
                 <= requests_per_minute

\* A client was refused by the minute limit, was let through again later,
\* and was refused by the hour limit with room in its minute quota.
C34_Witness ==
    \E i, j, k \in Limited :
        /\ i < k
        /\ answered[i].client = answered[k].client
        /\ answered[j].client = answered[k].client
        /\ i \notin LetThrough /\ j \notin LetThrough /\ k \in LetThrough
        /\ Cardinality(LetThroughBefore(i, MinuteWindow))
              >= requests_per_minute
        /\ Cardinality(LetThroughBefore(j, MinuteWindow))
              < requests_per_minute

\* The times of the requests of a client that were let through, in order.
LetThroughTimes(client) ==
    LET passed == SelectSeq(answered,
                            LAMBDA a : /\ a.checked
                                       /\ a.downstream
                                       /\ a.client = client)
    IN [i \in 1..Len(passed) |-> passed[i].at]

\* The sequence `tail` ends the sequence `whole`.
EndsWith(whole, tail) ==
    /\ Len(tail) <= Len(whole)
    /\ tail = SubSeq(whole, Len(whole) - Len(tail) + 1, Len(whole))

\* C35: a request the limiter rejects is answered 429 and call_next does not
\* run for it, and it is not counted: each bucket of a client holds only
\* timestamps of requests of that client that were let through, each once
\* (the most recent ones, in order).
C35_RejectedNotCounted ==
    /\ \A i \in 1..Len(answered) :
          /\ answered[i].status = 429 =>
                answered[i].checked /\ ~answered[i].downstream
          /\ answered[i].status # 429 => answered[i].downstream
    /\ \A c \in Clients :
          /\ EndsWith(LetThroughTimes(c), rate_limiter.minute_buckets[c])
          /\ EndsWith(LetThroughTimes(c), rate_limiter.hour_buckets[c])

\* The last request was answered 429 while the quota of its client for the
\* minute was used up by requests that had been let through.
C35_Witness ==
    /\ answered # << >>
    /\ LET last == answered[Len(answered)]
       IN /\ last.status = 429
          /\ ~last.downstream
          /\ Len(rate_limiter.minute_buckets[last.client])
                = requests_per_minute
          /\ Len(LetThroughTimes(last.client)) = requests_per_minute

----------------------------------------------------------------------------
(* Properties of the rate limit kept in Redis (SpecCk) *)

\* The calls for the key of call j made in the `window` seconds up to and
\* including call j.
ChecksInWindow(j) ==
    { i \in 1..j :
        /\ checks[i].key = checks[j].key
        /\ checks[i].at > checks[j].at - checks[j].window }

\* C36: check_rate_limit enforces a window of `window` seconds: the counter
\* of a key starts again `window` seconds after the first request of the
\* window although requests keep arriving, so the count a call returns
\* never exceeds the number of calls for the key in the `window` seconds up
\* to it, and a call is refused only if more than `limit` calls for the key
\* were made in those seconds.
C36_WindowResets ==
    \A j \in 1..Len(checks) :
        /\ checks[j].current <= Cardinality(ChecksInWindow(j))
        /\ ~checks[j].is_allowed =>
              Cardinality(ChecksInWindow(j)) > checks[j].limit

----------------------------------------------------------------------------
(* Properties of the signature validation (SpecVs) *)

\* validate_signature was called with a timestamp.
ValidatedWithTimestamp ==
    validation.result # "none" /\ validation.timestamp # NoTimestamp

\* The timestamp of the call is an integer at most max_age_seconds in the
\* past and at most 60 seconds in the future of the time of the call.
TimestampFresh ==
    LET parsed == ParseInt(validation.timestamp)
    IN /\ parsed.ok
       /\ validation.at - parsed.value <= max_age_seconds
       /\ parsed.value - validation.at <= FutureTolerance

\* The signature of the call is the HMAC, under the secret of the validator,
\* over "<timestamp>.<payload>".
SignatureOverTimestampAndPayload ==
    validation.signature =
       Hmac(secret_key,
            validation.timestamp \o << "." >> \o validation.payload,
            validation.algorithm)

\* C37: validate_signature with a timestamp accepts only when the timestamp
\* is an integer at most max_age_seconds (300) in the past and at most 60
\* seconds in the future and the signature is the HMAC over
\* "<timestamp>.<payload>"; a timestamp that is stale, from the future or
\* not a number is rejected whatever the signature.
C37_TimestampedSignature ==
    ValidatedWithTimestamp =>
       /\ validation.result = "True" =>
             TimestampFresh /\ SignatureOverTimestampAndPayload
       /\ ~TimestampFresh => validation.result = "False"

\* A correctly signed request was accepted at the very end of its 300
\* seconds.
C37_Witness ==
    /\ ValidatedWithTimestamp
    /\ validation.result = "True"
    /\ SignatureOverTimestampAndPayload
    /\ validation.at - ParseInt(validation.timestamp).value = max_age_seconds

----------------------------------------------------------------------------
(* Properties of the event history (SpecWs) *)

\* C38: after any sequence of broadcasts event_history holds at most
\* max_history_size events, and they are the events broadcast most
\* recently, in the order of their broadcast.
C38_HistoryHoldsMostRecent ==
    /\ Len(event_history) <= max_history_size
    /\ Len(event_history) <= Len(broadcasts)
    /\ Len(broadcasts) <= max_history_size =>
          event_history = broadcasts
    /\ Len(broadcasts) > max_history_size =>
          /\ Len(event_history) = max_history_size
          /\ \A i \in 1..max_history_size :
                event_history[i] =
                   broadcasts[Len(broadcasts) - max_history_size + i]

\* More events were broadcast than the history holds, and the event
\* dropped last differs from the oldest event kept.
C38_Witness ==
    /\ Len(broadcasts) > max_history_size + 1
    /\ Len(event_history) = max_history_size
    /\ broadcasts[Len(broadcasts) - max_history_size] # event_history[1]

====
